---- MODULE Spec2Model ----
(***************************************************************************)
(* Model of the in-memory table store and query layer of the CSV query     *)
(* MCP server (alcosta35/csv-query-mcp-server).                            *)
(*                                                                         *)
(* Two revisions of the HTTPMCPServer class are modelled:                  *)
(*   - src/http_server_code.ts (first class): handleLoadCSVFromDrive,      *)
(*     handleQueryLoadedCSV, handleAnalyzeNFData   -> Spec, SpecQuery      *)
(*   - src/unnamed/part_004: handleLoadFromDrive, handleQueryData          *)
(*     (fuzzy table-name resolution)                -> SpecDrive           *)
(*                                                                         *)
(* JavaScript strings are sequences of one-character strings; JavaScript   *)
(* values are tagged records; numbers are integers or NaN.                 *)
(***************************************************************************)
EXTENDS Integers, Sequences, FiniteSets, TLC

VARIABLES loadedData, lastCall, result, load

vars == <<loadedData, lastCall, result, load>>

-----------------------------------------------------------------------------
(* JavaScript values *)

Undefined == [t |-> "undefined", n |-> 0, s |-> <<>>]
Null      == [t |-> "null", n |-> 0, s |-> <<>>]
NaN       == [t |-> "nan", n |-> 0, s |-> <<>>]
Num(n)    == [t |-> "number", n |-> n, s |-> <<>>]
Str(s)    == [t |-> "string", n |-> 0, s |-> s]

\* JavaScript truthiness, as used by !x and by x || y
Truthy(v) ==
    CASE v.t = "number" -> v.n # 0
      [] v.t = "string" -> v.s # <<>>
      [] OTHER -> FALSE

\* x || y
Or(x, y) == IF Truthy(x) THEN x ELSE y

Digits == <<"0", "1", "2", "3", "4", "5", "6", "7", "8", "9">>

IsDigit(c) == \E i \in 1..10 : Digits[i] = c

DigitVal(c) == (CHOOSE i \in 1..10 : Digits[i] = c) - 1

RECURSIVE NatToString(_)
NatToString(n) ==
    IF n < 10 THEN <<Digits[n + 1]>>
    ELSE NatToString(n \div 10) \o <<Digits[(n % 10) + 1]>>

\* String(v)
String(v) ==
    CASE v.t = "string" -> v.s
      [] v.t = "number" -> IF v.n < 0 THEN <<"-">> \o NatToString(-v.n)
                           ELSE NatToString(v.n)
      [] v.t = "nan" -> <<"N", "a", "N">>
      [] v.t = "null" -> <<"n", "u", "l", "l">>
      [] OTHER -> <<"u", "n", "d", "e", "f", "i", "n", "e", "d">>

Upper == <<"A", "B", "C", "D", "E", "F", "G", "H", "I", "J", "K", "L", "M",
           "N", "O", "P", "Q", "R", "S", "T", "U", "V", "W", "X", "Y", "Z">>
Lower == <<"a", "b", "c", "d", "e", "f", "g", "h", "i", "j", "k", "l", "m",
           "n", "o", "p", "q", "r", "s", "t", "u", "v", "w", "x", "y", "z">>

LowerChar(c) ==
    IF \E i \in 1..26 : Upper[i] = c
    THEN Lower[CHOOSE i \in 1..26 : Upper[i] = c]
    ELSE c

\* s.toLowerCase()
ToLowerCase(s) == [i \in 1..Len(s) |-> LowerChar(s[i])]

\* s.indexOf(t), 0-based, -1 when t does not occur in s
IndexOf(s, t) ==
    LET found == {i \in 0..(Len(s) - Len(t)) : SubSeq(s, i + 1, i + Len(t)) = t}
    IN IF found = {} THEN -1
       ELSE CHOOSE i \in found : \A j \in found : i <= j

\* s.includes(t)
Includes(s, t) == IndexOf(s, t) >= 0

\* s.replace(pat, ''): removes the first occurrence of the string pat
ReplaceFirst(s, pat) ==
    LET i == IndexOf(s, pat)
    IN IF i < 0 THEN s
       ELSE SubSeq(s, 1, i) \o SubSeq(s, i + Len(pat) + 1, Len(s))

\* s.split(sep)[0] for a one-character separator
SplitHead(s, sep) ==
    LET i == IndexOf(s, <<sep>>)
    IN IF i < 0 THEN s ELSE SubSeq(s, 1, i)

\* the digits at the front of s, as a number; [len, n]
RECURSIVE LeadingDigits(_, _, _)
LeadingDigits(s, i, acc) ==
    IF i <= Len(s) /\ IsDigit(s[i])
    THEN LeadingDigits(s, i + 1, [len |-> acc.len + 1, n |-> acc.n * 10 + DigitVal(s[i])])
    ELSE acc

IsSpace(c) == c = " "

RECURSIVE SkipSpaces(_, _)
SkipSpaces(s, i) == IF i <= Len(s) /\ IsSpace(s[i]) THEN SkipSpaces(s, i + 1) ELSE i

\* parseFloat(s) on the integer fragment of the number syntax: leading white
\* space, an optional sign, then the longest run of digits; whatever follows
\* the digits is ignored; NaN when there is no digit.
ParseFloat(s) ==
    LET i == SkipSpaces(s, 1)
        neg == i <= Len(s) /\ s[i] = "-"
        j == IF i <= Len(s) /\ (s[i] = "-" \/ s[i] = "+") THEN i + 1 ELSE i
        d == LeadingDigits(s, j, [len |-> 0, n |-> 0])
    IN IF d.len = 0 THEN NaN
       ELSE Num(IF neg THEN -d.n ELSE d.n)

\* isNaN(v) for a number v
IsNaN(v) == v.t = "nan"

\* a + b over numbers
Add(a, b) == IF IsNaN(a) \/ IsNaN(b) THEN NaN ELSE Num(a.n + b.n)

-----------------------------------------------------------------------------
(* Arrays, row objects and the Map of loaded tables *)

Min(a, b) == IF a < b THEN a ELSE b
Max(a, b) == IF a > b THEN a ELSE b

\* arr.splice(start, end - start): the elements are taken out of the receiver
ArraySlice_splice(arr, start, end) ==
    LET len == Len(arr)
        k == IF start < 0 THEN Max(len + start, 0) ELSE Min(start, len)
        final == IF end < 0 THEN Max(len + end, 0) ELSE Min(end, len)
    IN [ret |-> SubSeq(arr, k + 1, final),
        arr |-> SubSeq(arr, 1, k) \o SubSeq(arr, Max(final, k) + 1, len)]

\* arr.slice(start, end) with a numeric end: a negative index counts from the
\* end of the array. ret is the returned array, arr the receiver afterwards.
ArraySlice(arr, start, end) ==
    LET len == Len(arr)
        k == IF start < 0 THEN Max(len + start, 0) ELSE Min(start, len)
        final == IF end < 0 THEN Max(len + end, 0) ELSE Min(end, len)
    IN [ret |-> SubSeq(arr, k + 1, final), arr |-> arr]

\* a stable sort of seq by the comparator Cmp (negative: first argument first)
StableSort(seq, Cmp(_, _)) ==
    LET n == Len(seq)
        rank(i) == 1 + Cardinality({j \in 1..n :
                        \/ Cmp(seq[j], seq[i]) < 0
                        \/ (Cmp(seq[j], seq[i]) = 0 /\ j < i)})
    IN [p \in 1..n |-> seq[CHOOSE i \in 1..n : rank(i) = p]]

\* A row object is the sequence of its own properties [k, v] in insertion
\* order. row[col]:
Get(row, col) ==
    IF \E i \in 1..Len(row) : row[i].k = col
    THEN row[CHOOSE i \in 1..Len(row) : row[i].k = col].v
    ELSE Undefined

\* Object.keys(row)
ObjectKeys(row) == [i \in 1..Len(row) |-> row[i].k]

\* A stored value is an array of rows or (Excel) an object of sheets
RowTable(rows) == [isArray |-> TRUE, rows |-> rows, sheets |-> <<>>]
SheetBundle(sheets) == [isArray |-> FALSE, rows |-> <<>>, sheets |-> sheets]

\* loadedData is a Map: the sequence of its entries [key, val] in insertion order
MapKeys(m) == [i \in 1..Len(m) |-> m[i].key]

MapHas(m, key) == \E i \in 1..Len(m) : m[i].key = key

MapGet(m, key) == m[CHOOSE i \in 1..Len(m) : m[i].key = key].val

MapSet_only(m, key, val) == <<[key |-> key, val |-> val]>>

\* m.set(key, val): an existing key keeps its place
MapSet(m, key, val) ==
    IF MapHas(m, key)
    THEN [i \in 1..Len(m) |-> IF m[i].key = key THEN [key |-> key, val |-> val] ELSE m[i]]
    ELSE Append(m, [key |-> key, val |-> val])

\* arr.find(P): index of the first element satisfying P, 0 when there is none
FindIndex(arr, P(_)) ==
    LET found == {i \in 1..Len(arr) : P(arr[i])}
    IN IF found = {} THEN 0
       ELSE CHOOSE i \in found : \A j \in found : i <= j

-----------------------------------------------------------------------------
(* Results of a tool call *)

NoResult == [kind |-> "none", error |-> "", names |-> <<>>, table |-> <<>>,
             num |-> Undefined, rows |-> <<>>, cols |-> <<>>, groups |-> <<>>,
             ranking |-> <<>>, top |-> <<>>, count |-> Undefined, category |-> <<>>]

Fail(error, names) == [NoResult EXCEPT !.kind = "error", !.error = error, !.names = names]

OkNum(v) == [NoResult EXCEPT !.kind = "ok", !.num = v]
OkRows(rows) == [NoResult EXCEPT !.kind = "ok", !.rows = rows]
OkCols(cols) == [NoResult EXCEPT !.kind = "ok", !.cols = cols]
OkGroups(groups) == [NoResult EXCEPT !.kind = "ok", !.groups = groups]

-----------------------------------------------------------------------------
(* handleQueryLoadedCSV, src/http_server_code.ts *)

DefaultLimit == 100
SampleCap == 10
GroupItems == 3

cValorTotal == <<"v", "a", "l", "o", "r", "_", "t", "o", "t", "a", "l">>
cValor == <<"v", "a", "l", "o", "r">>

\* one step of the reduce of 'sum'
SumStep(sum, row, column) ==
    LET val == ParseFloat(String(Or(Get(row, column), Num(0))))
    IN Add(sum, IF IsNaN(val) THEN Num(0) ELSE val)

RECURSIVE SumColumn(_, _, _, _)
SumColumn(data, column, i, sum) ==
    IF i > Len(data) THEN sum
    ELSE SumColumn(data, column, i + 1, SumStep(sum, data[i], column))

\* one step of the reduce that computes a group's total_value
TotalStep(sum, item) ==
    LET val == ParseFloat(String(Or(Or(Get(item, cValorTotal), Get(item, cValor)), Num(0))))
    IN Add(sum, IF IsNaN(val) THEN Num(0) ELSE val)

RECURSIVE TotalValue(_, _, _)
TotalValue(items, i, sum) ==
    IF i > Len(items) THEN sum
    ELSE TotalValue(items, i + 1, TotalStep(sum, items[i]))

\* if (!groups[key]) groups[key] = []; groups[key].push(row)
GroupPush(groups, key, row) ==
    IF \E g \in 1..Len(groups) : groups[g].key = key
    THEN [g \in 1..Len(groups) |->
            IF groups[g].key = key
            THEN [key |-> key, rows |-> Append(groups[g].rows, row)]
            ELSE groups[g]]
    ELSE Append(groups, [key |-> key, rows |-> <<row>>])

RECURSIVE GroupRows(_, _, _, _)
GroupRows(data, column, i, groups) ==
    IF i > Len(data) THEN groups
    ELSE GroupRows(data, column, i + 1,
                   GroupPush(groups, String(Get(data[i], column)), data[i]))

\* a property key that is a canonical array index
IsIndexKey(key) ==
    /\ key # <<>>
    /\ \A i \in 1..Len(key) : IsDigit(key[i])
    /\ (Len(key) = 1 \/ key[1] # "0")

\* Object.keys(groups): index keys in ascending numeric order, then the
\* other keys in insertion order
KeyOrder(a, b) ==
    CASE IsIndexKey(a.key) /\ IsIndexKey(b.key) -> ParseFloat(a.key).n - ParseFloat(b.key).n
      [] IsIndexKey(a.key) /\ ~IsIndexKey(b.key) -> -1
      [] ~IsIndexKey(a.key) /\ IsIndexKey(b.key) -> 1
      [] OTHER -> 0

OwnGroups(groups) == StableSort(groups, KeyOrder)

CompareTotal_ascending(a, b) == Or(a.total_value, Num(0)).n - Or(b.total_value, Num(0)).n

\* the comparator of the sort of the groups
CompareTotal(a, b) == Or(b.total_value, Num(0)).n - Or(a.total_value, Num(0)).n

GroupRecord(g) ==
    [key |-> g.key,
     count |-> Len(g.rows),
     total_value |-> TotalValue(g.rows, 1, Num(0)),
     items |-> ArraySlice(g.rows, 0, GroupItems).ret]

GroupBy(data, column) ==
    LET groups == OwnGroups(GroupRows(data, column, 1, <<>>))
    IN StableSort([g \in 1..Len(groups) |-> GroupRecord(groups[g])], CompareTotal)

\* the predicate of the filter of 'filter'
FilterMatch(row, column, value) ==
    LET rowValue == ToLowerCase(String(Or(Get(row, column), Str(<<>>))))
        searchValue == ToLowerCase(String(value))
    IN Includes(rowValue, searchValue)

\* arr.filter(P)
RECURSIVE ArrayFilter(_, _, _, _)
ArrayFilter(data, column, value, i) ==
    IF i > Len(data) THEN <<>>
    ELSE (IF FilterMatch(data[i], column, value) THEN <<data[i]>> ELSE <<>>)
         \o ArrayFilter(data, column, value, i + 1)

\* if (!column) throw ...
ColumnMissing(column) == ~Truthy(column)

\* if (!column || value === undefined) throw ...
FilterParamsMissing_falsyValue(column, value) == ~Truthy(column) \/ ~Truthy(value)

FilterParamsMissing(column, value) == ~Truthy(column) \/ value = Undefined

\* const { table, operation, column, value, limit = 100 } = args
LimitOf(args) == IF args.limit = Undefined THEN DefaultLimit ELSE args.limit.n

\* The switch of handleQueryLoadedCSV on the array data: res is what the
\* handler returns or throws, data is the array as the handler leaves it.
QuerySwitch(data, args) ==
    LET column == args.column
        value == args.value
        limit == LimitOf(args)
        same(res) == [res |-> res, data |-> data]
    IN CASE args.operation = "count" -> same(OkNum(Num(Len(data))))
         [] args.operation = "get_columns" ->
                same(OkCols(IF Len(data) > 0 THEN ObjectKeys(data[1]) ELSE <<>>))
         [] args.operation = "sample" ->
                LET sl == ArraySlice(data, 0, Min(limit, SampleCap))
                IN [res |-> OkRows(sl.ret), data |-> sl.arr]
         [] args.operation = "sum" ->
                IF ColumnMissing(column) THEN same(Fail("MissingParameter", <<>>))
                ELSE same(OkNum(SumColumn(data, column.s, 1, Num(0))))
         [] args.operation = "group_by" ->
                IF ColumnMissing(column) THEN same(Fail("MissingParameter", <<>>))
                ELSE same(OkGroups(GroupBy(data, column.s)))
         [] args.operation = "filter" ->
                IF FilterParamsMissing(column, value)
                THEN same(Fail("MissingParameter", <<>>))
                ELSE LET sl == ArraySlice(ArrayFilter(data, column.s, value, 1), 0, limit)
                     IN same(OkRows(sl.ret))
         [] args.operation = "all" ->
                LET sl == ArraySlice(data, 0, limit)
                IN [res |-> OkRows(sl.ret), data |-> sl.arr]
         [] OTHER -> same(Fail("UnknownOperation", <<>>))

\* handleQueryLoadedCSV(args) on the Map m: the result and the Map afterwards
QueryLoadedCSV(m, args) ==
    IF ~MapHas(m, args.table)
    THEN [res |-> Fail("TableNotFound", MapKeys(m)), map |-> m]
    ELSE LET q == QuerySwitch(MapGet(m, args.table).rows, args)
         IN [res |-> [q.res EXCEPT !.table = args.table],
             map |-> MapSet(m, args.table, RowTable(q.data))]

-----------------------------------------------------------------------------
(* handleAnalyzeNFData and findColumn, src/http_server_code.ts *)

CabecalhoName == <<"2", "0", "2", "4", "0", "1", "_", "N", "F", "s", "_", "C", "a", "b", "e", "c", "a", "l", "h", "o", ".", "c", "s", "v">>
ItensName == <<"2", "0", "2", "4", "0", "1", "_", "N", "F", "s", "_", "I", "t", "e", "n", "s", ".", "c", "s", "v">>

UfNames == <<<<"u", "f", "_", "e", "m", "i", "t", "e", "n", "t", "e">>,
    <<"u", "f">>,
    <<"u", "f", " ", "e", "m", "i", "t", "e", "n", "t", "e">>,
    <<"e", "s", "t", "a", "d", "o">>>>

ValorNames == <<<<"v", "a", "l", "o", "r", "_", "t", "o", "t", "a", "l">>,
    <<"v", "a", "l", "o", "r">>,
    <<"v", "a", "l", "o", "r", " ", "t", "o", "t", "a", "l">>,
    <<"t", "o", "t", "a", "l">>>>

InternetNames == <<<<"i", "n", "t", "e", "r", "n", "e", "t">>,
    <<"o", "p", "e", "r", "a", "c", "a", "o", "_", "i", "n", "t", "e", "r", "n", "e", "t">>,
    <<"o", "p", "e", "r", "a", "ç", "ã", "o", " ", "i", "n", "t", "e", "r", "n", "e", "t">>,
    <<"v", "i", "a", "_", "i", "n", "t", "e", "r", "n", "e", "t">>>>

CidadeNames == <<<<"c", "i", "d", "a", "d", "e", "_", "e", "m", "i", "t", "e", "n", "t", "e">>,
    <<"c", "i", "d", "a", "d", "e">>,
    <<"c", "i", "d", "a", "d", "e", " ", "e", "m", "i", "t", "e", "n", "t", "e">>,
    <<"m", "u", "n", "i", "c", "i", "p", "i", "o">>>>

DescNames == <<<<"d", "e", "s", "c", "r", "i", "c", "a", "o">>,
    <<"p", "r", "o", "d", "u", "t", "o">>,
    <<"i", "t", "e", "m">>,
    <<"c", "a", "t", "e", "g", "o", "r", "i", "a">>>>

ValorItemNames == <<<<"v", "a", "l", "o", "r">>,
    <<"v", "a", "l", "o", "r", "_", "i", "t", "e", "m">>,
    <<"v", "a", "l", "o", "r", " ", "i", "t", "e", "m">>,
    <<"p", "r", "e", "c", "o">>>>

DefaultCategory == <<"L", "i", "v", "r", "o", "s">>

TopCities == 2
CategorySamples == 5

FindOne_lowered(keys, name) ==
    LET part(key) == Includes(ToLowerCase(key), ToLowerCase(name))
    IN IF FindIndex(keys, part) > 0 THEN Str(ToLowerCase(keys[FindIndex(keys, part)])) ELSE Null

\* what findColumn finds for one candidate name: the name itself when it is a
\* key, else the first key equal to it ignoring case, else the first key that
\* contains it ignoring case; Null when there is none
FindOne(keys, name) ==
    LET same(key) == ToLowerCase(key) = ToLowerCase(name)
        part(key) == Includes(ToLowerCase(key), ToLowerCase(name))
    IN IF \E i \in 1..Len(keys) : keys[i] = name THEN Str(name)
       ELSE IF FindIndex(keys, same) > 0 THEN Str(keys[FindIndex(keys, same)])
       ELSE IF FindIndex(keys, part) > 0 THEN Str(keys[FindIndex(keys, part)])
       ELSE Null

RECURSIVE FindFrom(_, _, _)
FindFrom(keys, possibleNames, n) ==
    IF n > Len(possibleNames) THEN Null
    ELSE IF FindOne(keys, possibleNames[n]) # Null THEN FindOne(keys, possibleNames[n])
    ELSE FindFrom(keys, possibleNames, n + 1)

\* findColumn(data[0], possibleNames): data[0] is undefined for an empty array
findColumn(data, possibleNames) ==
    IF Len(data) = 0 THEN Null
    ELSE FindFrom(ObjectKeys(data[1]), possibleNames, 1)

ColumnsNotFound_unlisted(data) == Fail("ColumnsNotFound", <<>>)

\* the throw of "Required columns not found": Object.keys(data[0]) raises a
\* TypeError when data[0] is undefined
ColumnsNotFound(data) ==
    IF Len(data) = 0 THEN Fail("TypeError", <<>>)
    ELSE Fail("ColumnsNotFound", ObjectKeys(data[1]))

\* ufGroups after one header row: an entry is a property [key, n]
EntryAdd(entries, key, create, add, amount) ==
    LET has == \E e \in 1..Len(entries) : entries[e].key = key
        made == IF create /\ (~has \/ ~Truthy(entries[CHOOSE e \in 1..Len(entries) : entries[e].key = key].n))
                THEN (IF has
                      THEN [e \in 1..Len(entries) |->
                              IF entries[e].key = key THEN [key |-> key, n |-> Num(0)] ELSE entries[e]]
                      ELSE Append(entries, [key |-> key, n |-> Num(0)]))
                ELSE entries
        hasNow == \E e \in 1..Len(made) : made[e].key = key
    IN IF ~add THEN made
       ELSE IF hasNow
       THEN [e \in 1..Len(made) |->
               IF made[e].key = key
               THEN [key |-> key, n |-> Add(Or(made[e].n, Num(0)), amount)]
               ELSE made[e]]
       ELSE Append(made, [key |-> key, n |-> Add(Num(0), amount)])

\* cabecalho.forEach of uf_values
RECURSIVE UfGroups(_, _, _, _, _)
UfGroups(cabecalho, ufColumn, valorColumn, i, ufGroups) ==
    IF i > Len(cabecalho) THEN ufGroups
    ELSE LET uf == Get(cabecalho[i], ufColumn)
             valor == ParseFloat(String(Or(Get(cabecalho[i], valorColumn), Num(0))))
         IN UfGroups(cabecalho, ufColumn, valorColumn, i + 1,
                     EntryAdd(ufGroups, String(uf), Truthy(uf),
                              Truthy(uf) /\ ~IsNaN(valor), valor))

CompareEntry_ascending(a, b) == Or(a.n, Num(0)).n - Or(b.n, Num(0)).n

\* the comparator of the sorts of the rankings
CompareEntry(a, b) == Or(b.n, Num(0)).n - Or(a.n, Num(0)).n

\* Object.entries(groups): index keys first, ascending
OwnEntries(entries) == StableSort(entries, KeyOrder)

IsInternet(nf, internetColumn) ==
    LET internet == ToLowerCase(String(Or(Get(nf, internetColumn), Str(<<>>))))
    IN \/ internet = <<"s">>
       \/ internet = <<"s", "i", "m">>
       \/ internet = <<"t", "r", "u", "e">>
       \/ internet = <<"1">>

RECURSIVE InternetOps(_, _, _)
InternetOps(cabecalho, internetColumn, i) ==
    IF i > Len(cabecalho) THEN <<>>
    ELSE (IF IsInternet(cabecalho[i], internetColumn) THEN <<cabecalho[i]>> ELSE <<>>)
         \o InternetOps(cabecalho, internetColumn, i + 1)

\* internetOps.forEach of internet_cities
RECURSIVE CityGroups(_, _, _, _)
CityGroups(internetOps, cidadeColumn, i, cityGroups) ==
    IF i > Len(internetOps) THEN cityGroups
    ELSE LET cidade == Get(internetOps[i], cidadeColumn)
         IN CityGroups(internetOps, cidadeColumn, i + 1,
                       EntryAdd(cityGroups, String(cidade), Truthy(cidade),
                                Truthy(cidade), Num(1)))

CategoryMatch(item, descColumn, categoryFilter) ==
    Includes(ToLowerCase(String(Or(Get(item, descColumn), Str(<<>>)))),
             ToLowerCase(categoryFilter))

RECURSIVE CategoryItems(_, _, _, _)
CategoryItems(itens, descColumn, categoryFilter, i) ==
    IF i > Len(itens) THEN <<>>
    ELSE (IF CategoryMatch(itens[i], descColumn, categoryFilter) THEN <<itens[i]>> ELSE <<>>)
         \o CategoryItems(itens, descColumn, categoryFilter, i + 1)

cDescricao == <<"d", "e", "s", "c", "r", "i", "c", "a", "o">>

FoundItem(item, descColumn, valorItemColumn) ==
    <<[k |-> cDescricao, v |-> Get(item, descColumn)],
      [k |-> cValor, v |-> Get(item, valorItemColumn)]>>

AnalyzeUfValues(cabecalho) ==
    LET ufColumn == findColumn(cabecalho, UfNames)
        valorColumn == findColumn(cabecalho, ValorNames)
    IN IF ~Truthy(ufColumn) \/ ~Truthy(valorColumn) THEN ColumnsNotFound(cabecalho)
       ELSE LET sortedUFs == StableSort(
                    OwnEntries(UfGroups(cabecalho, ufColumn.s, valorColumn.s, 1, <<>>)),
                    CompareEntry)
            IN [NoResult EXCEPT !.kind = "ok",
                                !.top = ArraySlice(sortedUFs, 0, 1).ret,
                                !.ranking = sortedUFs,
                                !.cols = <<ufColumn.s, valorColumn.s>>]

AnalyzeInternetCities(cabecalho) ==
    LET internetColumn == findColumn(cabecalho, InternetNames)
        cidadeColumn == findColumn(cabecalho, CidadeNames)
    IN IF ~Truthy(internetColumn) \/ ~Truthy(cidadeColumn) THEN ColumnsNotFound(cabecalho)
       ELSE LET internetOps == InternetOps(cabecalho, internetColumn.s, 1)
                sortedCities == ArraySlice(
                    StableSort(OwnEntries(CityGroups(internetOps, cidadeColumn.s, 1, <<>>)),
                               CompareEntry),
                    0, TopCities).ret
            IN [NoResult EXCEPT !.kind = "ok",
                                !.ranking = sortedCities,
                                !.num = Num(Len(internetOps)),
                                !.count = Num(Len(cabecalho)),
                                !.cols = <<internetColumn.s, cidadeColumn.s>>]

AnalyzeCategoryValues(m, category) ==
    IF ~MapHas(m, ItensName) THEN Fail("NotLoaded", <<ItensName>>)
    ELSE LET itens == MapGet(m, ItensName).rows
             categoryFilter == Or(category, Str(DefaultCategory)).s
             descColumn == findColumn(itens, DescNames)
             valorItemColumn == findColumn(itens, ValorItemNames)
         IN IF ~Truthy(descColumn) \/ ~Truthy(valorItemColumn) THEN ColumnsNotFound(itens)
            ELSE LET categoryItems == CategoryItems(itens, descColumn.s, categoryFilter, 1)
                     shown == ArraySlice(categoryItems, 0, CategorySamples).ret
                 IN [NoResult EXCEPT
                        !.kind = "ok",
                        !.category = categoryFilter,
                        !.num = SumColumn(categoryItems, valorItemColumn.s, 1, Num(0)),
                        !.count = Num(Len(categoryItems)),
                        !.rows = [r \in 1..Len(shown) |->
                                     FoundItem(shown[r], descColumn.s, valorItemColumn.s)],
                        !.cols = <<descColumn.s, valorItemColumn.s>>]

\* handleAnalyzeNFData(args) on the Map m: the result and the Map afterwards
AnalyzeNFData(m, args) ==
    LET res ==
          IF ~MapHas(m, CabecalhoName) THEN Fail("NotLoaded", <<CabecalhoName>>)
          ELSE LET cabecalho == MapGet(m, CabecalhoName).rows
               IN CASE args.analysis = "total_nfs" -> OkNum(Num(Len(cabecalho)))
                    [] args.analysis = "uf_values" -> AnalyzeUfValues(cabecalho)
                    [] args.analysis = "internet_cities" -> AnalyzeInternetCities(cabecalho)
                    [] args.analysis = "category_values" ->
                           AnalyzeCategoryValues(m, args.category)
                    [] OTHER -> Fail("UnknownAnalysisType", <<>>)
    IN [res |-> res, map |-> m]

-----------------------------------------------------------------------------
(* handleQueryData, src/unnamed/part_004 *)

xlsx == <<".", "x", "l", "s", "x">>
xls == <<".", "x", "l", "s">>

\* key.includes(tableName) || tableName.includes(key.split('_')[0])
SheetMatch(key, tableName) ==
    Includes(key, tableName) \/ Includes(tableName, SplitHead(key, "_"))

\* tableName.replace('.xlsx', '').replace('.xls', '')
BaseName(tableName) == ReplaceFirst(ReplaceFirst(tableName, xlsx), xls)

\* key === baseName || key.includes(baseName)
BaseMatch(key, tableName) ==
    key = BaseName(tableName) \/ Includes(key, BaseName(tableName))

\* The lookup of handleQueryData: the key whose entry is used, if any
ResolveTable(m, tableName) ==
    LET availableKeys == MapKeys(m)
        sheet(key) == SheetMatch(key, tableName)
        base(key) == BaseMatch(key, tableName)
        bySheet == FindIndex(availableKeys, sheet)
        byBase == FindIndex(availableKeys, base)
    IN IF MapHas(m, tableName) THEN [found |-> TRUE, key |-> tableName]
       ELSE IF bySheet > 0
       THEN [found |-> TRUE, key |-> availableKeys[bySheet]]
       ELSE IF byBase > 0
       THEN [found |-> TRUE, key |-> availableKeys[byBase]]
       ELSE [found |-> FALSE, key |-> <<>>]

AvailableTables_all(m) == MapKeys(m)

\* availableKeys.filter(key => Array.isArray(this.loadedData.get(key)))
AvailableTables(m) ==
    LET isTable(i) == m[i].val.isArray
        F[i \in 0..Len(m)] ==
            IF i = 0 THEN <<>>
            ELSE IF isTable(i) THEN Append(F[i - 1], m[i].key) ELSE F[i - 1]
    IN F[Len(m)]

QuerySample == 5
SummaryColumns == 10

\* the query is one of the words, in any letter case
Asks(query, w1, w2) ==
    Includes(ToLowerCase(query), w1) \/ Includes(ToLowerCase(query), w2)

\* generateDataSummary: per column (the first 10 of the first row) the number
\* of distinct values and of null, undefined or empty values
ColumnSummary(data, col) ==
    LET filled == {i \in 1..Len(data) :
                      Get(data[i], col) \notin {Null, Undefined, Str(<<>>)}}
    IN [key |-> col,
        count |-> Cardinality({Get(data[i], col) : i \in filled}),
        nulls |-> Len(data) - Cardinality(filled)]

generateDataSummary(data) ==
    IF Len(data) = 0 THEN <<>>
    ELSE LET columns == ArraySlice(ObjectKeys(data[1]), 0, SummaryColumns).ret
         IN [c \in 1..Len(columns) |-> ColumnSummary(data, columns[c])]

\* the "Simple query processing" of handleQueryData on the array data
ProcessQuery(data, query) ==
    IF Asks(query, <<"c", "o", "u", "n", "t">>, <<"t", "o", "t", "a", "l">>)
    THEN OkNum(Num(Len(data)))
    ELSE IF Asks(query, <<"c", "o", "l", "u", "m", "n", "s">>, <<"f", "i", "e", "l", "d", "s">>)
    THEN OkCols(IF Len(data) > 0 THEN ObjectKeys(data[1]) ELSE <<>>)
    ELSE IF Asks(query, <<"s", "a", "m", "p", "l", "e">>, <<"f", "i", "r", "s", "t">>)
    THEN OkRows(ArraySlice(data, 0, QuerySample).ret)
    ELSE IF Asks(query, <<"s", "u", "m", "m", "a", "r", "y">>, <<"d", "e", "s", "c", "r", "i", "b", "e">>)
    THEN [OkGroups(generateDataSummary(data)) EXCEPT !.count = Num(Len(data))]
    ELSE [NoResult EXCEPT !.kind = "ok", !.count = Num(Len(data))]

SheetOptions_bare(tableName, sheets) == [i \in 1..Len(sheets) |-> sheets[i].key]

\* the names `${tableName}_${sheet}` offered when an Excel object has not
\* exactly one sheet
SheetOptions(tableName, sheets) ==
    [i \in 1..Len(sheets) |-> tableName \o <<"_">> \o sheets[i].key]

\* what handleQueryData hands to the query processing
Target(error, data, name) == [error |-> error, data |-> data, name |-> name]

QueryTarget_anyValue(m, tableName) ==
    LET r == ResolveTable(m, tableName)
    IN IF ~r.found THEN Target("TableNotFound", RowTable(<<>>), <<>>)
       ELSE Target("", MapGet(m, r.key), r.key)

\* handleQueryData up to "Simple query processing": the value found for the
\* name; of an Excel object with one sheet, that sheet; an error for an object
\* with another number of sheets and for what is not an array
QueryTarget(m, tableName) ==
    LET r == ResolveTable(m, tableName)
        found == MapGet(m, r.key)
        sheets == OwnEntries(found.sheets)
        data == IF found.isArray THEN found ELSE RowTable(sheets[1].rows)
    IN IF ~r.found THEN Target("TableNotFound", RowTable(<<>>), <<>>)
       ELSE IF ~found.isArray /\ Len(sheets) # 1
       THEN Target("AmbiguousTable", found, r.key)
       ELSE IF ~data.isArray THEN Target("NotQueryable", data, r.key)
       ELSE Target("", data,
                   IF found.isArray THEN r.key ELSE r.key \o <<"_">> \o sheets[1].key)

\* the handleQueryData of the second server of src/http_server_code.ts: the
\* name is looked up as it is and the value must be an array
ExactTarget(m, tableName) ==
    IF ~MapHas(m, tableName) THEN Target("TableNotFound", RowTable(<<>>), <<>>)
    ELSE IF ~MapGet(m, tableName).isArray
    THEN Target("NotQueryable", MapGet(m, tableName), tableName)
    ELSE Target("", MapGet(m, tableName), tableName)

\* handleQueryData(tableName, query) on the Map m
QueryData(m, tableName, query) ==
    LET target == QueryTarget(m, tableName)
    IN CASE target.error = "TableNotFound" -> Fail("TableNotFound", AvailableTables(m))
         [] target.error = "AmbiguousTable" ->
               Fail("AmbiguousTable", SheetOptions(tableName, OwnEntries(target.data.sheets)))
         [] target.error = "NotQueryable" -> Fail("NotQueryable", <<>>)
         [] OTHER -> [ProcessQuery(target.data.rows, query) EXCEPT !.table = target.name]

-----------------------------------------------------------------------------
(* handleWriteCSVToDrive and handleListLoadedData, src/unnamed/part_004 *)

\* sheets.forEach(...): the index of the first sheet with the most records,
\* the first sheet when every sheet is empty, 0 (undefined) without sheets
RECURSIVE LargestSheet(_, _, _, _)
LargestSheet(sheets, i, largestSheet, maxRecords) ==
    IF i > Len(sheets) THEN largestSheet
    ELSE IF Len(sheets[i].rows) > maxRecords
    THEN LargestSheet(sheets, i + 1, i, Len(sheets[i].rows))
    ELSE LargestSheet(sheets, i + 1, largestSheet, maxRecords)

\* what a source of rows was found to be
Source(csvData, sourceDescription, name) ==
    [found |-> TRUE, csvData |-> csvData, sourceDescription |-> sourceDescription, name |-> name]

\* "Determine data source" for a table name: the rows and their description
TableSource(m, tableName) ==
    LET r == ResolveTable(m, tableName)
        tableData == MapGet(m, r.key)
        sheets == OwnEntries(tableData.sheets)
        largestSheet == LargestSheet(sheets, 1, IF Len(sheets) > 0 THEN 1 ELSE 0, 0)
    IN IF ~r.found THEN [found |-> FALSE, csvData |-> <<>>, sourceDescription |-> "", name |-> <<>>]
       ELSE IF tableData.isArray THEN Source(tableData.rows, "from table", r.key)
       ELSE IF Len(sheets) = 1
       THEN Source(sheets[1].rows, "from sheet", r.key \o <<"_">> \o sheets[1].key)
       ELSE IF largestSheet = 0
       THEN Source(<<>>, "from largest sheet", r.key \o <<"_">>)
       ELSE Source(sheets[largestSheet].rows, "from largest sheet",
                   r.key \o <<"_">> \o sheets[largestSheet].key)

WriteCSVToDrive_dataFirst(m, data, tableName, uploaded) ==
    IF data.given /\ Len(data.rows) > 0 /\ uploaded
    THEN [NoResult EXCEPT !.kind = "ok", !.rows = data.rows, !.count = Num(Len(data.rows)),
                          !.category = <<"from provided data array">>,
                          !.num = Num(Len(ObjectKeys(data.rows[1])))]
    ELSE Fail("NoData", <<>>)

\* handleWriteCSVToDrive(data, filename, tableName) on the Map m; uploaded
\* tells whether the upload to Drive went through
WriteCSVToDrive(m, data, tableName, uploaded) ==
    LET source == IF Len(tableName) > 0 THEN TableSource(m, tableName)
                  ELSE Source(data.rows, "from provided data array", <<>>)
    IN IF Len(tableName) > 0 /\ ~source.found THEN Fail("TableNotFound", MapKeys(m))
       ELSE IF Len(tableName) = 0 /\ ~data.given THEN Fail("NoValidData", <<>>)
       ELSE IF Len(source.csvData) = 0 THEN Fail("NoData", <<>>)
       ELSE IF ~uploaded THEN Fail("UploadFailed", <<>>)
       ELSE [NoResult EXCEPT !.kind = "ok", !.rows = source.csvData,
                             !.count = Num(Len(source.csvData)),
                             !.table = source.name,
                             !.category = <<source.sourceDescription>>,
                             !.num = Num(Len(ObjectKeys(source.csvData[1])))]

\* one line of handleListLoadedData
ListedEntry(name, data) ==
    IF data.isArray
    THEN [key |-> name, isArray |-> TRUE, count |-> Len(data.rows),
          cols |-> IF Len(data.rows) > 0
                   THEN ArraySlice(ObjectKeys(data.rows[1]), 0, QuerySample).ret ELSE <<>>,
          sheets |-> <<>>]
    ELSE [key |-> name, isArray |-> FALSE, count |-> 0, cols |-> <<>>,
          sheets |-> LET sheets == OwnEntries(data.sheets)
                     IN [i \in 1..Len(sheets) |->
                            [key |-> sheets[i].key, count |-> Len(sheets[i].rows)]]]

\* handleListLoadedData on the Map m
ListLoadedData(m) ==
    [NoResult EXCEPT !.kind = "ok", !.names = MapKeys(m),
                     !.groups = [i \in 1..Len(m) |-> ListedEntry(m[i].key, m[i].val)]]

-----------------------------------------------------------------------------
(* convertToCSV and escapeCSVField, src/unnamed/part_004 *)

Quote == "\""
Comma == ","
LF == "\n"
CR == "\r"

\* stringValue.replace(/"/g, '""')
RECURSIVE DoubleQuotes(_)
DoubleQuotes(s) ==
    IF Len(s) = 0 THEN <<>>
    ELSE (IF Head(s) = Quote THEN <<Quote, Quote>> ELSE <<Head(s)>>) \o DoubleQuotes(Tail(s))

escapeCSVField_always(value) == <<Quote>> \o DoubleQuotes(String(value)) \o <<Quote>>

\* escapeCSVField(value)
escapeCSVField(value) ==
    IF value.t \in {"null", "undefined"} THEN <<>>
    ELSE LET stringValue == String(value)
         IN IF \/ Includes(stringValue, <<Comma>>)
               \/ Includes(stringValue, <<Quote>>)
               \/ Includes(stringValue, <<LF>>)
               \/ Includes(stringValue, <<CR>>)
            THEN <<Quote>> \o DoubleQuotes(stringValue) \o <<Quote>>
            ELSE stringValue

\* allHeaders after the keys of one row: a Set, in insertion order
RECURSIVE AddKeys(_, _, _)
AddKeys(allHeaders, keys, k) ==
    IF k > Len(keys) THEN allHeaders
    ELSE AddKeys(IF \E h \in 1..Len(allHeaders) : allHeaders[h] = keys[k]
                 THEN allHeaders ELSE Append(allHeaders, keys[k]),
                 keys, k + 1)

AllHeaders_firstRow(data, i, allHeaders) == ObjectKeys(data[1])

\* the first data.forEach of convertToCSV
RECURSIVE AllHeaders(_, _, _)
AllHeaders(data, i, allHeaders) ==
    IF i > Len(data) THEN allHeaders
    ELSE AllHeaders(data, i + 1, AddKeys(allHeaders, ObjectKeys(data[i]), 1))

\* strs.join(sep)
RECURSIVE Join(_, _)
Join(strs, sep) ==
    IF Len(strs) = 0 THEN <<>>
    ELSE IF Len(strs) = 1 THEN strs[1]
    ELSE strs[1] \o <<sep>> \o Join(Tail(strs), sep)

\* convertToCSV(data)
convertToCSV(data) ==
    IF Len(data) = 0 THEN <<>>
    ELSE LET headers == AllHeaders(data, 1, <<>>)
             headerRow == Join([h \in 1..Len(headers) |-> escapeCSVField(Str(headers[h]))],
                               Comma)
             csvRow(row) == [h \in 1..Len(headers) |-> escapeCSVField(Get(row, headers[h]))]
             csvRows == <<headerRow>>
                        \o [i \in 1..Len(data) |-> Join(csvRow(data[i]), Comma)]
         IN Join(csvRows, LF)

-----------------------------------------------------------------------------
(* parseCSV, src/csv-parser.ts, on a text without tab, bar and semicolon *)

\* Papa's reading of the text into records of fields with the comma as the
\* delimiter: a field that opens with a double quote runs to its closing
\* quote, a doubled quote inside it standing for one; the line feed ends a
\* record outside quotes. mode is "start" at the start of a field, "plain"
\* in an unquoted field, "quoted" inside quotes, "closed" after them.
RECURSIVE Records(_, _, _, _, _, _)
Records(text, i, mode, field, record, records) ==
    IF i > Len(text) THEN Append(records, Append(record, field))
    ELSE LET c == text[i]
         IN IF mode = "quoted"
            THEN (IF c = Quote /\ i < Len(text) /\ text[i + 1] = Quote
                  THEN Records(text, i + 2, "quoted", Append(field, Quote), record, records)
                  ELSE IF c = Quote
                  THEN Records(text, i + 1, "closed", field, record, records)
                  ELSE Records(text, i + 1, "quoted", Append(field, c), record, records))
            ELSE IF c = Comma
            THEN Records(text, i + 1, "start", <<>>, Append(record, field), records)
            ELSE IF c = LF
            THEN Records(text, i + 1, "start", <<>>, <<>>,
                         Append(records, Append(record, field)))
            ELSE IF mode = "start" /\ c = Quote
            THEN Records(text, i + 1, "quoted", field, record, records)
            ELSE Records(text, i + 1, "plain", Append(field, c), record, records)

\* skipEmptyLines: true drops the records of one empty field
RECURSIVE SkipEmptyLines(_)
SkipEmptyLines(records) ==
    IF Len(records) = 0 THEN <<>>
    ELSE (IF Head(records) = << <<>> >> THEN <<>> ELSE <<Head(records)>>)
         \o SkipEmptyLines(Tail(records))

IsWhite(c) == c \in {" ", LF, CR}

\* s.trim()
RECURSIVE Trim(_)
Trim(s) ==
    IF Len(s) = 0 THEN s
    ELSE IF IsWhite(s[1]) THEN Trim(Tail(s))
    ELSE IF IsWhite(s[Len(s)]) THEN Trim(SubSeq(s, 1, Len(s) - 1))
    ELSE s

IsWordChar(c) ==
    \/ IsDigit(c)
    \/ c = "_"
    \/ \E i \in 1..26 : Upper[i] = c \/ Lower[i] = c

\* .replace(/\s+/g, '_').replace(/[^\w_]/g, '') on a trimmed header
RECURSIVE HeaderChars(_, _)
HeaderChars(s, i) ==
    IF i > Len(s) THEN <<>>
    ELSE IF IsWhite(s[i])
    THEN (IF i > 1 /\ IsWhite(s[i - 1]) THEN <<>> ELSE <<"_">>) \o HeaderChars(s, i + 1)
    ELSE (IF IsWordChar(s[i]) THEN <<s[i]>> ELSE <<>>) \o HeaderChars(s, i + 1)

\* transformHeader of the first parse
TransformHeader(header) == HeaderChars(ToLowerCase(Trim(header)), 1)

\* value.replace(/,/g, '')
RECURSIVE WithoutCommas(_)
WithoutCommas(s) ==
    IF Len(s) = 0 THEN <<>>
    ELSE (IF Head(s) = Comma THEN <<>> ELSE <<Head(s)>>) \o WithoutCommas(Tail(s))

\* /^-?\d+\.?\d*$/ on a text without a point
IsInteger(s) ==
    LET j == IF Len(s) > 0 /\ s[1] = "-" THEN 2 ELSE 1
    IN /\ j <= Len(s)
       /\ \A i \in j..Len(s) : IsDigit(s[i])

transform_keep(text) == Str(text)

\* transform of the first parse, on a field whose text is not a date
transform(text) ==
    LET value == Trim(text)
    IN IF value = <<>> \/ value = <<"n", "u", "l", "l">> \/ value = <<"N", "U", "L", "L">>
       THEN Null
       ELSE IF IsInteger(WithoutCommas(value)) THEN ParseFloat(WithoutCommas(value))
       ELSE Str(value)

\* dynamicTyping on what transform returned, for a text that is not a
\* boolean word or a date
ParseDynamic(value) ==
    IF value.t # "string" THEN value
    ELSE IF IsInteger(Trim(value.s)) THEN ParseFloat(value.s)
    ELSE IF value.s = <<>> THEN Null
    ELSE value

\* the delimiter guess of Papa fails when the records read with the comma
\* have no more than 1.99 fields on average
UndetectableDelimiter(records) ==
    LET lines == SkipEmptyLines(records)
        RECURSIVE fields(_)
        fields(k) == IF k = 0 THEN 0 ELSE Len(lines[k]) + fields(k - 1)
    IN Len(lines) = 0 \/ 100 * fields(Len(lines)) <= 199 * Len(lines)

\* the row objects of header: true; typed tells whether transform and
\* dynamicTyping apply
HeaderRowsOf(records, typed) ==
    LET lines == SkipEmptyLines(records)
        fields == [h \in 1..Len(lines[1]) |-> TransformHeader(lines[1][h])]
        typedValue(text) == IF typed THEN ParseDynamic(transform(text)) ELSE Str(text)
    IN IF Len(lines) = 0 THEN <<>>
       ELSE [r \in 1..(Len(lines) - 1) |->
                [j \in 1..Min(Len(lines[r + 1]), Len(fields)) |->
                    [k |-> fields[j], v |-> typedValue(lines[r + 1][j])]]]

\* parseCSV on the content of the file: the rows, or the error thrown
parseCSV(fileContent) ==
    IF Len(Trim(fileContent)) = 0 THEN [ok |-> FALSE, data |-> <<>>]
    ELSE LET records == Records(fileContent, 1, "start", <<>>, <<>>, <<>>)
             simple == HeaderRowsOf(records, FALSE)
             data == HeaderRowsOf(records, TRUE)
         IN IF UndetectableDelimiter(records)
            THEN [ok |-> Len(simple) > 0, data |-> simple]
            ELSE [ok |-> Len(data) > 0, data |-> data]

-----------------------------------------------------------------------------
(* Tool calls *)

NoCall == [tool |-> "none", table |-> <<>>, operation |-> "", column |-> Undefined,
           value |-> Undefined, limit |-> Undefined, analysis |-> "", category |-> Undefined,
           query |-> <<>>, data |-> [given |-> FALSE, rows |-> <<>>], upload |-> "",
           possibleNames |-> <<>>]

QueryCall(table, operation, column, value, limit) ==
    [NoCall EXCEPT !.tool = "query_loaded_csv", !.table = table,
                   !.operation = operation, !.column = column,
                   !.value = value, !.limit = limit]

AnalyzeCall(analysis, category) ==
    [NoCall EXCEPT !.tool = "analyze_nf_data", !.analysis = analysis,
                   !.category = category]

\* no load in progress; parsed counts the files parsed since the server started
Idle == [active |-> FALSE, files |-> <<>>, total |-> 0, loadedCount |-> 0, results |-> <<>>,
         totalRows |-> 0, parsed |-> 0]

\* handleQueryLoadedCSV runs without an await: one step
handleQueryLoadedCSV(table, operation, column, value, limit) ==
    LET args == QueryCall(table, operation, column, value, limit)
        q == QueryLoadedCSV(loadedData, args)
    IN /\ lastCall' = args
       /\ result' = q.res
       /\ loadedData' = q.map
       /\ UNCHANGED load

\* handleAnalyzeNFData runs without an await: one step
handleAnalyzeNFData(analysis, category) ==
    LET args == AnalyzeCall(analysis, category)
        a == AnalyzeNFData(loadedData, args)
    IN /\ lastCall' = args
       /\ result' = a.res
       /\ loadedData' = a.map
       /\ UNCHANGED load

-----------------------------------------------------------------------------
(* SpecQuery: handleQueryLoadedCSV applied once to one loaded table *)

MaxRows == 2

cUF == <<"u", "f">>
cNone == <<"n", "o">>

Prop(k, v) == [k |-> k, v |-> v]

\* rows as the CSV parser (dynamicTyping) leaves them: numbers, null, strings
QueryRows ==
    { <<Prop(cUF, Str(<<"S", "P">>)), Prop(cValorTotal, Num(10)), Prop(cValor, Num(3))>>,
      <<Prop(cUF, Str(<<"s", "p">>)), Prop(cValorTotal, Num(0)), Prop(cValor, Num(7))>>,
      <<Prop(cUF, Num(0)), Prop(cValor, Str(<<"1", "2", "k", "g">>))>>,
      <<Prop(cUF, Str(<<"R", "J">>)), Prop(cValorTotal, Str(<<"a", "b", "c">>)), Prop(cValor, Num(4))>>,
      <<Prop(cUF, Null), Prop(cValorTotal, Null), Prop(cValor, Num(5))>>,
      <<Prop(cValorTotal, Num(-2))>>,
      <<Prop(cUF, Str(<<"1", "0">>)), Prop(cValorTotal, Num(20))>> }

QueryTables == UNION { [1..n -> QueryRows] : n \in 1..MaxRows }

tName == <<"t", ".", "c", "s", "v">>
xName == <<"x", ".", "c", "s", "v">>

QueryColumns == {Undefined, Str(<<>>), Str(cUF), Str(cValorTotal), Str(cValor), Str(cNone)}

QueryValues == {Undefined, Str(<<>>), Str(<<"S">>), Str(<<"0">>)}

QueryLimits == {Undefined, Num(-1), Num(0), Num(1), Num(10)}

\* the argument combinations: the arguments an operation does not read are
\* left out (undefined)
QueryArgs ==
       { <<op, Undefined, Undefined, Undefined>> : op \in {"count", "get_columns", "median"} }
  \cup { <<op, Undefined, Undefined, l>> : op \in {"sample", "all"}, l \in QueryLimits }
  \cup { <<op, c, Undefined, Undefined>> : op \in {"sum", "group_by"}, c \in QueryColumns }
  \cup { <<"filter", c, v, l>> : c \in QueryColumns, v \in QueryValues, l \in QueryLimits }

cInternet == <<"i", "n", "t", "e", "r", "n", "e", "t">>
cCidade == <<"c", "i", "d", "a", "d", "e">>
cProduto == <<"p", "r", "o", "d", "u", "t", "o">>
cPreco == <<"p", "r", "e", "c", "o">>

\* rows of the header table
HeaderRows ==
    { <<Prop(cUF, Str(<<"S", "P">>)), Prop(cValorTotal, Num(10)),
        Prop(cInternet, Str(<<"S">>)), Prop(cCidade, Str(<<"A">>))>>,
      <<Prop(cUF, Str(<<"R", "J">>)), Prop(cValorTotal, Num(30)),
        Prop(cInternet, Str(<<"S", "i", "m">>)), Prop(cCidade, Str(<<"B">>))>>,
      <<Prop(cUF, Str(<<"S", "P">>)), Prop(cValorTotal, Str(<<"a", "b", "c">>)),
        Prop(cInternet, Num(1)), Prop(cCidade, Str(<<"A">>))>>,
      <<Prop(cUF, Null), Prop(cValorTotal, Num(5)),
        Prop(cInternet, Str(<<"N">>)), Prop(cCidade, Null)>>,
      <<Prop(cUF, Str(<<"R", "J">>)), Prop(cValor, Num(7)),
        Prop(cInternet, Str(<<"t", "r", "u", "e">>))>>,
      <<Prop(cUF, Str(<<"M", "G">>)), Prop(cValorTotal, Str(<<"1", "2", "k", "g">>))>>,
      <<Prop(cUF, Str(<<"S", "P">>)), Prop(cCidade, Str(<<"A">>))>> }

\* rows of the line-item table
ItemRows ==
    { <<Prop(cDescricao, Str(<<"L", "i", "v", "r", "o", "s", " ", "X">>)), Prop(cValor, Num(12))>>,
      <<Prop(cDescricao, Str(<<"c", "a", "d", "e", "r", "n", "o">>)), Prop(cValor, Str(<<"3", "x">>))>>,
      <<Prop(cProduto, Str(<<"l", "i", "v", "r", "o", "s">>)), Prop(cPreco, Num(4))>>,
      <<Prop(cDescricao, Str(<<"L", "i", "v", "r", "o", "s">>)), Prop(cUF, Str(<<"S", "P">>))>> }

HeaderTables == UNION { [1..n -> HeaderRows] : n \in 1..MaxRows }

\* an operation over the internet in the city
CityRow(cidade) == <<Prop(cInternet, Str(<<"s">>)), Prop(cCidade, Str(cidade))>>

\* header tables of three cities
CityTables ==
    { <<CityRow(<<"A">>), CityRow(<<"C">>), CityRow(<<"B">>), CityRow(<<"B">>)>>,
      <<CityRow(<<"C">>), CityRow(<<"B">>), CityRow(<<"A">>)>> }

ItemTables == UNION { [1..n -> ItemRows] : n \in 1..MaxRows }

Entry(key, rows) == [key |-> key, val |-> RowTable(rows)]

\* the stores the read operations are applied to
ReadStores ==
       { <<>> }
  \cup { <<Entry(tName, T)>> : T \in QueryTables }
  \cup { <<Entry(CabecalhoName, H)>> : H \in HeaderTables \cup CityTables }
  \cup { <<Entry(ItensName, I)>> : I \in ItemTables }
  \cup { <<Entry(CabecalhoName, H), Entry(ItensName, I)>> :
            H \in { T \in HeaderTables : Len(T) = 1 }, I \in ItemTables }

AnalysisArgs ==
       { <<a, Undefined>> : a \in {"total_nfs", "uf_values", "internet_cities", "average"} }
  \cup { <<"category_values", c>> : c \in {Undefined, Str(<<>>), Str(<<"C", "a", "d">>)} }

InitQuery ==
    /\ loadedData \in ReadStores
    /\ lastCall = NoCall
    /\ result = NoResult
    /\ load = Idle

\* one call of each operation
PlainArgs ==
    { <<op, Str(cUF), Str(<<"S">>), Undefined>> :
         op \in {"count", "get_columns", "sample", "sum", "group_by", "filter", "all", "median"} }

\* the queries applied to the store m: every argument combination on the
\* table tName, one call of each operation on the other names
QueryInputs(m) ==
    LET keys == {m[i].key : i \in 1..Len(m)}
    IN      { <<t, a>> : t \in keys \cap {tName}, a \in QueryArgs }
       \cup { <<t, a>> : t \in (keys \ {tName}) \cup {xName}, a \in PlainArgs }

ApplyQuery ==
    /\ lastCall.tool = "none"
    /\ \E q \in QueryInputs(loadedData) :
          handleQueryLoadedCSV(q[1], q[2][1], q[2][2], q[2][3], q[2][4])

ApplyAnalyze ==
    /\ lastCall.tool = "none"
    /\ \E a \in AnalysisArgs : handleAnalyzeNFData(a[1], a[2])

NextQuery == ApplyQuery \/ ApplyAnalyze

SpecQuery == InitQuery /\ [][NextQuery]_vars

-----------------------------------------------------------------------------
(* handleLoadFromDrive, src/unnamed/part_004 *)

\* for (const [sheetName, sheetData] of Object.entries(data)):
\* this.loadedData.set(`${fileName}_${sheetName}`, sheetData)
RECURSIVE StoreSheets(_, _, _, _)
StoreSheets(m, fileName, sheets, i) ==
    IF i > Len(sheets) THEN m
    ELSE StoreSheets(MapSet(m, fileName \o <<"_">> \o sheets[i].key, RowTable(sheets[i].rows)),
                     fileName, sheets, i + 1)

\* sheetNames.find(name => name.toLowerCase().includes(<file name in lower
\* case without .xlsx/.xls>)) || sheetNames[0]: the index of the main sheet
MainSheet(fileName, sheets) ==
    LET named(sheet) == Includes(ToLowerCase(sheet.key), BaseName(ToLowerCase(fileName)))
    IN IF FindIndex(sheets, named) > 0 THEN FindIndex(sheets, named) ELSE 1

StoreParsed_fresh(m, fileName, data) == MapSet(<<>>, fileName, data)

\* the body of the try of one turn of the loop over the extracted files, after
\* parseFileByType returned data: the Map afterwards
StoreParsed(m, fileName, data) ==
    IF ~data.isArray
    THEN LET sheets == OwnEntries(data.sheets)
             stored == MapSet(StoreSheets(m, fileName, sheets, 1), fileName, data)
         IN IF Len(sheets) > 0
            THEN MapSet(stored, BaseName(fileName),
                        RowTable(sheets[MainSheet(fileName, sheets)].rows))
            ELSE stored
    ELSE MapSet(m, fileName, data)

RECURSIVE TotalRecords(_, _)
TotalRecords(sheets, i) ==
    IF i > Len(sheets) THEN 0 ELSE Len(sheets[i].rows) + TotalRecords(sheets, i + 1)

\* the line pushed to results for one file
FileResult(file) ==
    [name |-> file.name,
     ok |-> file.ok,
     records |-> IF ~file.ok THEN 0
                 ELSE IF file.data.isArray THEN Len(file.data.rows)
                 ELSE TotalRecords(file.data.sheets, 1),
     sheets |-> IF file.ok THEN Len(file.data.sheets) ELSE 0]

LoadCall == [NoCall EXCEPT !.tool = "load_csv_from_drive"]

\* handleLoadFromDrive up to the loop: the file id is missing, the download
\* fails or is empty, or the archive holds no file: the call ends in an error
LoadFromDriveFails ==
    /\ ~load.active
    /\ \E reason \in {"FileIdRequired", "DownloadFailed", "EmptyDownload", "NoFiles"} :
          result' = Fail(reason, <<>>)
    /\ lastCall' = LoadCall
    /\ UNCHANGED <<loadedData, load>>

\* handleLoadFromDrive up to the loop, the archive extracted into files
BeginLoadFromDrive(extractedFiles) ==
    /\ ~load.active
    /\ Len(extractedFiles) > 0
    /\ load' = [active |-> TRUE, files |-> extractedFiles, total |-> Len(extractedFiles),
                loadedCount |-> 0, results |-> <<>>, totalRows |-> 0,
                parsed |-> load.parsed]
    /\ UNCHANGED <<loadedData, lastCall, result>>

\* one turn of the loop: await parseFileByType, then store or note the error
LoadFromDriveFile ==
    /\ load.active
    /\ Len(load.files) > 0
    /\ LET file == load.files[1]
       IN /\ loadedData' = IF file.ok THEN StoreParsed(loadedData, file.name, file.data)
                           ELSE loadedData
          /\ load' = [load EXCEPT !.files = Tail(@),
                                  !.parsed = @ + 1,
                                  !.loadedCount = IF file.ok THEN @ + 1 ELSE @,
                                  !.results = Append(@, FileResult(file))]
    /\ UNCHANGED <<lastCall, result>>

\* after the loop: the summary is returned
EndLoadFromDrive ==
    /\ load.active
    /\ Len(load.files) = 0
    /\ result' = [NoResult EXCEPT !.kind = "ok", !.num = Num(load.loadedCount),
                                  !.count = Num(load.total), !.groups = load.results]
    /\ lastCall' = LoadCall
    /\ load' = [Idle EXCEPT !.parsed = load.parsed]
    /\ UNCHANGED loadedData

QueryDataCall(tableName, query) ==
    [NoCall EXCEPT !.tool = "query_data", !.table = tableName, !.query = query]

\* handleQueryData runs without an await: one step
handleQueryData(tableName, query) ==
    /\ lastCall' = QueryDataCall(tableName, query)
    /\ result' = QueryData(loadedData, tableName, query)
    /\ UNCHANGED <<loadedData, load>>

WriteCall(data, tableName, uploaded) ==
    [NoCall EXCEPT !.tool = "write_csv_to_drive", !.table = tableName, !.data = data,
                   !.upload = IF uploaded THEN "done" ELSE "failed"]

\* handleWriteCSVToDrive reads the Map before its first await and never
\* writes to it: one step
handleWriteCSVToDrive(data, tableName, uploaded) ==
    /\ lastCall' = WriteCall(data, tableName, uploaded)
    /\ result' = WriteCSVToDrive(loadedData, data, tableName, uploaded)
    /\ UNCHANGED <<loadedData, load>>

\* handleListLoadedData runs without an await: one step
handleListLoadedData ==
    /\ lastCall' = [NoCall EXCEPT !.tool = "list_loaded_data"]
    /\ result' = ListLoadedData(loadedData)
    /\ UNCHANGED <<loadedData, load>>

-----------------------------------------------------------------------------
(* SpecDrive: the server of part_004, loads and queries interleaved *)

MaxFiles == 2

nAb == <<"a", "b", ".", "c", "s", "v">>
nB == <<"b", ".", "c", "s", "v">>
nD == <<"d", ".", "x", "l", "s", "x">>

cA == <<"a">>

tA == << <<Prop(cA, Num(1))>> >>
tB == << <<Prop(cA, Num(2))>>, <<Prop(cA, Null)>> >>

Sheet(name, rows) == [key |-> name, rows |-> rows]

Parsed(name, data) == [name |-> name, ok |-> TRUE, data |-> data]
Unparsed(name) == [name |-> name, ok |-> FALSE, data |-> RowTable(<<>>)]

\* the files an archive can hold, with what the parser makes of them: CSV
\* files, and a workbook with two sheets, with one sheet (as an object, or as
\* the array the later ExcelParser returns), or one that cannot be parsed
DriveFiles ==
    { Parsed(nAb, RowTable(tA)),
      Parsed(nB, RowTable(tB)),
      Parsed(nD, SheetBundle(<<Sheet(<<"S">>, tA), Sheet(<<"T">>, tB)>>)),
      Parsed(nD, SheetBundle(<<Sheet(<<"S">>, tB)>>)),
      Parsed(nD, RowTable(tB)),
      Unparsed(nD) }

Archives == UNION { [1..n -> DriveFiles] : n \in 1..MaxFiles }

TableIds == { nAb, nB, nD, <<"b">>, <<"d">>, <<"d", ".", "x", "l", "s", "x", "_", "S">>, <<"z", "z">> }

Queries == { <<"C", "o", "u", "n", "t">>, <<"f", "i", "e", "l", "d", "s">>, <<"f", "i", "r", "s", "t">>, <<"d", "e", "s", "c", "r", "i", "b", "e">>, <<"r", "o", "w", "s">> }

InitDrive ==
    /\ loadedData = <<>>
    /\ lastCall = NoCall
    /\ result = NoResult
    /\ load = Idle

\* every identifier is counted; the other queries are put to one identifier
DriveInputs ==
    { <<tableName, <<"C", "o", "u", "n", "t">> >> : tableName \in TableIds }
        \cup { <<nB, query>> : query \in Queries }

QueryDataStep == \E input \in DriveInputs : handleQueryData(input[1], input[2])

NoData == [given |-> FALSE, rows |-> <<>>]
Given(rows) == [given |-> TRUE, rows |-> rows]

\* the exports: by the name of a workbook, of a CSV table and of nothing
\* stored, with rows supplied and with neither; an upload that fails
WriteInputs ==
    { <<NoData, nD, TRUE>>, <<NoData, nAb, TRUE>>, <<NoData, <<"z", "z">>, TRUE>>,
      <<Given(tA), <<>>, TRUE>>, <<NoData, <<>>, TRUE>>, <<Given(tA), nD, FALSE>> }

WriteStep == \E input \in WriteInputs : handleWriteCSVToDrive(input[1], input[2], input[3])

\* the server parses at most MaxFiles files in all
BeginLoadStep ==
    \E extractedFiles \in Archives :
        /\ load.parsed + Len(extractedFiles) <= MaxFiles
        /\ BeginLoadFromDrive(extractedFiles)

NextDrive ==
    \/ LoadFromDriveFails
    \/ BeginLoadStep
    \/ LoadFromDriveFile
    \/ EndLoadFromDrive
    \/ QueryDataStep
    \/ WriteStep
    \/ handleListLoadedData

SpecDrive == InitDrive /\ [][NextDrive]_vars

-----------------------------------------------------------------------------
(* handleLoadCSVFromDrive, src/http_server_code.ts *)

LoadCSVCall == [NoCall EXCEPT !.tool = "load_csv_from_drive"]

\* handleLoadCSVFromDrive up to the loop: the download fails or is empty,
\* or the archive holds no CSV file: the call ends in an error
LoadCSVFromDriveFails ==
    /\ ~load.active
    /\ \E reason \in {"DownloadFailed", "EmptyDownload", "NoFiles"} :
          result' = Fail(reason, <<>>)
    /\ lastCall' = LoadCSVCall
    /\ UNCHANGED <<loadedData, load>>

\* handleLoadCSVFromDrive up to the loop, the archive extracted into csvFiles
BeginLoadCSVFromDrive(csvFiles) ==
    /\ ~load.active
    /\ Len(csvFiles) > 0
    /\ load' = [Idle EXCEPT !.active = TRUE, !.files = csvFiles, !.total = Len(csvFiles),
                            !.parsed = load.parsed]
    /\ UNCHANGED <<loadedData, lastCall, result>>

StoreCSV_lowerCase(m, filename, data) == MapSet(m, ToLowerCase(filename), data)

\* this.loadedData.set(filename, data), filename = path.basename(csvPath)
StoreCSV(m, filename, data) == MapSet(m, filename, data)

\* one turn of the loop: await parseCSV, then this.loadedData.set(filename,
\* data), or the note of the parse error
LoadCSVFromDriveFile ==
    /\ load.active
    /\ Len(load.files) > 0
    /\ LET file == load.files[1]
       IN /\ loadedData' = IF file.ok THEN StoreCSV(loadedData, file.name, file.data)
                           ELSE loadedData
          /\ load' = [load EXCEPT !.files = Tail(@),
                                  !.parsed = @ + 1,
                                  !.totalRows = IF file.ok THEN @ + Len(file.data.rows) ELSE @,
                                  !.results = Append(@, FileResult(file))]
    /\ UNCHANGED <<lastCall, result>>

\* after the loop: "Successfully processed n CSV files (Total: r rows)"
EndLoadCSVFromDrive ==
    /\ load.active
    /\ Len(load.files) = 0
    /\ result' = [NoResult EXCEPT !.kind = "ok", !.count = Num(load.total),
                                  !.num = Num(load.totalRows), !.groups = load.results]
    /\ lastCall' = LoadCSVCall
    /\ load' = [Idle EXCEPT !.parsed = load.parsed]
    /\ UNCHANGED loadedData

-----------------------------------------------------------------------------
(* SpecCsv: the server of src/http_server_code.ts, loads, queries and
   analyses interleaved *)

TName == <<"T", ".", "c", "s", "v">>

csvA == << <<Prop(cUF, Str(<<"S", "P">>)), Prop(cValorTotal, Num(10))>> >>

csvB == << <<Prop(cUF, Str(<<"R", "J">>)), Prop(cValorTotal, Num(4))>>,
           <<Prop(cUF, Str(<<"S", "P">>)), Prop(cValorTotal, Num(5))>> >>

\* the files of an archive with what parseCSV makes of them; parseCSV
\* refuses a file without data rows
CsvFiles ==
    { Parsed(tName, RowTable(csvA)),
      Parsed(tName, RowTable(csvB)),
      Parsed(TName, RowTable(csvB)),
      Parsed(CabecalhoName, RowTable(csvB)),
      Unparsed(xName) }

CsvArchives == UNION { [1..n -> CsvFiles] : n \in 1..MaxFiles }

CsvQueries ==
    { <<table, operation>> : table \in {tName, TName, xName},
                             operation \in {"count", "all", "group_by"} }

InitCsv ==
    /\ loadedData = <<>>
    /\ lastCall = NoCall
    /\ result = NoResult
    /\ load = Idle

\* the server parses at most MaxFiles files in all
BeginLoadCSVStep ==
    \E csvFiles \in CsvArchives :
        /\ load.parsed + Len(csvFiles) <= MaxFiles
        /\ BeginLoadCSVFromDrive(csvFiles)

QueryCsvStep ==
    \E q \in CsvQueries : handleQueryLoadedCSV(q[1], q[2], Str(cUF), Undefined, Undefined)

AnalyzeCsvStep ==
    \E analysis \in {"total_nfs", "uf_values"} : handleAnalyzeNFData(analysis, Undefined)

NextCsv ==
    \/ LoadCSVFromDriveFails
    \/ BeginLoadCSVStep
    \/ LoadCSVFromDriveFile
    \/ EndLoadCSVFromDrive
    \/ QueryCsvStep
    \/ AnalyzeCsvStep

SpecCsv == InitCsv /\ [][NextCsv]_vars

-----------------------------------------------------------------------------
(* handleLoadCSVFromDrive, src/unnamed/part_001: CSV files and workbooks *)

csv == <<".", "c", "s", "v">>

\* the lower-cased name ends with the suffix
EndsWith(name, suffix) ==
    /\ Len(name) >= Len(suffix)
    /\ SubSeq(ToLowerCase(name), Len(name) - Len(suffix) + 1, Len(name)) = suffix

\* fileType === '.xlsx' || fileType === '.xls'
IsWorkbook(fileName) == EndsWith(fileName, xlsx) \/ EndsWith(fileName, xls)

\* fileName.replace(/\.(xlsx|xls)$/i, '')
BaseFileName(fileName) ==
    IF EndsWith(fileName, xlsx) THEN SubSeq(fileName, 1, Len(fileName) - Len(xlsx))
    ELSE IF EndsWith(fileName, xls) THEN SubSeq(fileName, 1, Len(fileName) - Len(xls))
    ELSE fileName

\* `${baseFileName}_${sheetName.replace(/[^\w]/g, '_')}.csv` for a workbook
\* of several sheets, `${baseFileName}.csv` for a workbook of one
SheetTableName(fileName, sheetName, sheetCount) ==
    IF sheetCount > 1
    THEN BaseFileName(fileName) \o <<"_">>
         \o [i \in 1..Len(sheetName) |-> IF IsWordChar(sheetName[i]) THEN sheetName[i] ELSE "_"]
         \o csv
    ELSE BaseFileName(fileName) \o csv

\* what one turn of the loop leaves: the Map, totalRows and successCount
Loaded(map, totalRows, successCount) ==
    [map |-> map, totalRows |-> totalRows, successCount |-> successCount]

\* the loop over the sheets of a workbook: a sheet with rows is stored and
\* counted
RECURSIVE LoadSheets(_, _, _, _)
LoadSheets(acc, fileName, sheets, i) ==
    IF i > Len(sheets) THEN acc
    ELSE LoadSheets(
            IF Len(sheets[i].rows) > 0
            THEN Loaded(MapSet(acc.map, SheetTableName(fileName, sheets[i].key, Len(sheets)),
                               RowTable(sheets[i].rows)),
                        acc.totalRows + Len(sheets[i].rows), acc.successCount + 1)
            ELSE acc,
            fileName, sheets, i + 1)

\* the body of the try of one turn of the loop over extractedFiles. A
\* workbook the parser returned as an array has its row objects taken for
\* sheets: none has a length, nothing is stored.
LoadFile(acc, file) ==
    IF ~file.ok THEN acc
    ELSE IF ~IsWorkbook(file.name)
    THEN Loaded(MapSet(acc.map, file.name, file.data),
                acc.totalRows + Len(file.data.rows), acc.successCount + 1)
    ELSE IF file.data.isArray THEN acc
    ELSE LoadSheets(acc, file.name, OwnEntries(file.data.sheets), 1)

LoadSheetsCall == [NoCall EXCEPT !.tool = "load_csv_from_drive"]

\* handleLoadCSVFromDrive up to the loop: the call ends in an error
LoadSheetsFails ==
    /\ ~load.active
    /\ \E reason \in {"FileIdRequired", "NotAuthenticated", "DownloadFailed",
                       "EmptyDownload", "TooLarge", "NoFiles"} :
          result' = Fail(reason, <<>>)
    /\ lastCall' = LoadSheetsCall
    /\ UNCHANGED <<loadedData, load>>

\* handleLoadCSVFromDrive up to the loop, the archive extracted
BeginLoadSheets(extractedFiles) ==
    /\ ~load.active
    /\ Len(extractedFiles) > 0
    /\ load' = [Idle EXCEPT !.active = TRUE, !.files = extractedFiles,
                            !.total = Len(extractedFiles), !.parsed = load.parsed]
    /\ UNCHANGED <<loadedData, lastCall, result>>

\* one turn of the loop: await the parser, then store and count, or note
\* the error
LoadSheetsFile ==
    /\ load.active
    /\ Len(load.files) > 0
    /\ LET file == load.files[1]
           after == LoadFile(Loaded(loadedData, load.totalRows, load.loadedCount), file)
       IN /\ loadedData' = after.map
          /\ load' = [load EXCEPT !.files = Tail(@),
                                  !.parsed = @ + 1,
                                  !.totalRows = after.totalRows,
                                  !.loadedCount = after.successCount,
                                  !.results = Append(@, FileResult(file))]
    /\ UNCHANGED <<lastCall, result>>

\* after the loop: the error of successCount === 0, or the summary, whose
\* four numbers are files processed, successfully loaded, failed to load and
\* total rows loaded
EndLoadSheets ==
    /\ load.active
    /\ Len(load.files) = 0
    /\ result' = IF load.loadedCount = 0 THEN Fail("NoneProcessed", <<>>)
                 ELSE [NoResult EXCEPT !.kind = "ok",
                                       !.top = <<Num(load.total), Num(load.loadedCount),
                                                 Num(load.total - load.loadedCount),
                                                 Num(load.totalRows)>>,
                                       !.names = MapKeys(loadedData),
                                       !.groups = load.results]
    /\ lastCall' = LoadSheetsCall
    /\ load' = [Idle EXCEPT !.parsed = load.parsed]
    /\ UNCHANGED loadedData

\* the files of an archive with what the parsers make of them: CSV files,
\* workbooks of two sheets, of one sheet, of one sheet with a header line
\* only, a workbook returned as an array, and files that cannot be parsed
SheetFiles ==
    { Parsed(nAb, RowTable(tA)),
      Unparsed(nB),
      Parsed(nD, SheetBundle(<<Sheet(<<"S">>, tA), Sheet(<<"T">>, tB)>>)),
      Parsed(nD, SheetBundle(<<Sheet(<<"S">>, tB)>>)),
      Parsed(nD, SheetBundle(<<Sheet(<<"S">>, <<>>)>>)),
      Parsed(nD, RowTable(tB)),
      Unparsed(nD) }

SheetArchives == UNION { [1..n -> SheetFiles] : n \in 1..MaxFiles }

InitSheets ==
    /\ loadedData = <<>>
    /\ lastCall = NoCall
    /\ result = NoResult
    /\ load = Idle

\* the server parses at most MaxFiles files in all
BeginLoadSheetsStep ==
    \E extractedFiles \in SheetArchives :
        /\ load.parsed + Len(extractedFiles) <= MaxFiles
        /\ BeginLoadSheets(extractedFiles)

NextSheets ==
    \/ LoadSheetsFails
    \/ BeginLoadSheetsStep
    \/ LoadSheetsFile
    \/ EndLoadSheets

SpecSheets == InitSheets /\ [][NextSheets]_vars

-----------------------------------------------------------------------------
(* SpecColumn: findColumn applied to the first row of a table *)

MaxKeys == 2
MaxNames == 3

ColumnKeys ==
    { <<"U", "F", "_", "E", "m", "i", "t", "e", "n", "t", "e">>,
      <<"u", "f">>,
      <<"U", "F">>,
      <<"s", "i", "g", "l", "a", "_", "u", "f">>,
      <<"E", "s", "t", "a", "d", "o">> }

CandidateNames ==
    { <<"u", "f", "_", "e", "m", "i", "t", "e", "n", "t", "e">>,
      <<"u", "f">>,
      <<"e", "s", "t", "a", "d", "o">> }

\* rows of up to MaxKeys different keys, in every order
ColumnRows ==
    { [i \in 1..Len(keys) |-> Prop(keys[i], Num(1))] :
         keys \in { k \in UNION { [1..n -> ColumnKeys] : n \in 0..MaxKeys } :
                       \A i, j \in 1..Len(k) : i # j => k[i] # k[j] } }

CandidateLists == UNION { [1..n -> CandidateNames] : n \in 1..MaxNames }

\* the table is empty (its first row is undefined) or has one row
InitColumn ==
    /\ loadedData \in { <<Entry(tName, <<>>)>> } \cup { <<Entry(tName, <<row>>)>> : row \in ColumnRows }
    /\ lastCall = NoCall
    /\ result = NoResult
    /\ load = Idle

\* this.findColumn(data[0], possibleNames)
ApplyFindColumn ==
    /\ lastCall.tool = "none"
    /\ \E possibleNames \in CandidateLists :
          /\ lastCall' = [NoCall EXCEPT !.tool = "findColumn", !.table = tName,
                                        !.possibleNames = possibleNames]
          /\ result' = [NoResult EXCEPT !.kind = "ok",
                           !.top = <<findColumn(MapGet(loadedData, tName).rows, possibleNames)>>]
    /\ UNCHANGED <<loadedData, load>>

NextColumn == ApplyFindColumn

SpecColumn == InitColumn /\ [][NextColumn]_vars

-----------------------------------------------------------------------------
(* The export on its own: handleWriteCSVToDrive on the stores that
   handleLoadFromDrive of part_004 leaves *)

nE == <<"e", ".", "x", "l", "s", "x">>

\* the files of SpecDrive, and a workbook whose sheets have a header line
\* only: the ExcelParser returns the empty array for one such sheet and an
\* object of empty arrays for two
ExportFiles ==
    { file \in DriveFiles : file.ok }
        \cup { Parsed(nE, RowTable(<<>>)),
               Parsed(nE, SheetBundle(<<Sheet(<<"S">>, <<>>), Sheet(<<"T">>, <<>>)>>)) }

\* the Map after the files were loaded in order
RECURSIVE StoreAll(_, _, _)
StoreAll(m, files, i) ==
    IF i > Len(files) THEN m
    ELSE StoreAll(StoreParsed(m, files[i].name, files[i].data), files, i + 1)

ExportStores ==
    { StoreAll(<<>>, files, 1) : files \in UNION { [1..n -> ExportFiles] : n \in 0..MaxFiles } }

ExportInputs ==
    { <<data, tableName, uploaded>> :
         data \in {NoData, Given(<<>>), Given(tA)},
         tableName \in {<<>>, nAb, nD, nE, <<"b">>, <<"z", "z">>},
         uploaded \in BOOLEAN }

InitExport ==
    /\ loadedData \in ExportStores
    /\ lastCall = NoCall
    /\ result = NoResult
    /\ load = Idle

ApplyWrite ==
    /\ lastCall.tool = "none"
    /\ \E input \in ExportInputs : handleWriteCSVToDrive(input[1], input[2], input[3])

NextExport == ApplyWrite

SpecExport == InitExport /\ [][NextExport]_vars

-----------------------------------------------------------------------------
(* The serializer on its own: a table is in the store, convertToCSV,
   escapeCSVField and parseCSV are applied to it *)

cB == <<"b">>
cC == <<"c">>

SerializeRows ==
    { <<Prop(cA, Num(1)), Prop(cB, Str(<<"x", Comma, "y">>))>>,
      <<Prop(cA, Null), Prop(cB, Str(<<"q", Quote, "r">>))>>,
      <<Prop(cB, Str(<<"l", LF, "m">>))>>,
      <<Prop(cA, Str(<<"n", "u", "l", "l">>))>>,
      <<Prop(cA, Null)>>,
      <<Prop(cC, Num(2)), Prop(cA, Num(1))>> }

SerializeTables == UNION { [1..n -> SerializeRows] : n \in 0..MaxRows }

FieldValues ==
    { Null, Undefined, Num(1), Num(-2), Str(<<>>), Str(<<"a", "b">>), Str(<<" ", "a">>),
      Str(<<"x", Comma, "y">>), Str(<<Quote>>), Str(<<"q", Quote, Quote, "r">>),
      Str(<<"l", LF, "m">>), Str(<<"l", CR, "m">>) }

InitSerialize ==
    /\ loadedData \in { <<Entry(tName, T)>> : T \in SerializeTables }
    /\ lastCall = NoCall
    /\ result = NoResult
    /\ load = Idle

\* convertToCSV on the rows of the table
ApplyConvertToCSV ==
    /\ lastCall.tool = "none"
    /\ lastCall' = [NoCall EXCEPT !.tool = "convertToCSV", !.table = tName]
    /\ result' = [NoResult EXCEPT !.kind = "ok",
                                  !.table = convertToCSV(MapGet(loadedData, tName).rows)]
    /\ UNCHANGED <<loadedData, load>>

ApplyEscapeCSVField ==
    /\ lastCall.tool = "none"
    /\ \E value \in FieldValues :
          /\ lastCall' = [NoCall EXCEPT !.tool = "escapeCSVField", !.value = value]
          /\ result' = [NoResult EXCEPT !.kind = "ok", !.table = escapeCSVField(value)]
    /\ UNCHANGED <<loadedData, load>>

\* parseCSV on the text convertToCSV makes of the table
ApplyParseCSV ==
    /\ lastCall.tool = "none"
    /\ LET parsed == parseCSV(convertToCSV(MapGet(loadedData, tName).rows))
       IN /\ lastCall' = [NoCall EXCEPT !.tool = "parseCSV", !.table = tName]
          /\ result' = IF parsed.ok THEN OkRows(parsed.data) ELSE Fail("ParseFailed", <<>>)
    /\ UNCHANGED <<loadedData, load>>

NextSerialize == ApplyConvertToCSV \/ ApplyEscapeCSVField \/ ApplyParseCSV

SpecSerialize == InitSerialize /\ [][NextSerialize]_vars

-----------------------------------------------------------------------------
(* Properties of handleQueryLoadedCSV *)

\* the last call was the query operation op on a table of the store
IsQuery(op) ==
    /\ lastCall.tool = "query_loaded_csv"
    /\ lastCall.operation = op
    /\ MapHas(loadedData, lastCall.table)

\* the rows of the table the last call named
CalledTable == MapGet(loadedData, lastCall.table).rows

RECURSIVE SumOver(_, _, _)
SumOver(seq, F(_), i) == IF i > Len(seq) THEN 0 ELSE F(seq[i]) + SumOver(seq, F, i + 1)

IsPrefix(p, seq) == Len(p) <= Len(seq) /\ SubSeq(seq, 1, Len(p)) = p

GroupCount(g) == g.count

\* C1: a query operation (count, get_columns, sample, sum, group_by, filter,
\* all, or one that ends in an error) and an analysis leave the Map of
\* loaded tables as it was: the same names, the same rows under every name.
C1_ReadsLeaveStore ==
    [][lastCall'.tool \in {"query_loaded_csv", "analyze_nf_data"}
          => loadedData' = loadedData]_vars

\* a sample returned rows of a stored table
C1_Witness ==
    /\ IsQuery("sample")
    /\ result.kind = "ok"
    /\ Len(result.rows) >= 1
    /\ result.rows = SubSeq(CalledTable, 1, Len(result.rows))

C3_SampleBounded ==
    IsQuery("sample") =>
        LET T == CalledTable
            limit == LimitOf(lastCall)
        IN /\ result.kind = "ok"
           /\ Len(result.rows) <= Max(0, Min(limit, SampleCap))
           /\ IsPrefix(result.rows, T)
           /\ (limit >= SampleCap => Len(result.rows) = Min(Len(T), SampleCap))

\* C4: filter is idempotent: filtering the rows a filter returned, with the
\* same column, value and limit, returns the same rows.
C4_FilterIdempotent ==
    IsQuery("filter") /\ result.kind = "ok" =>
        QuerySwitch(result.rows, lastCall).res.rows = result.rows

\* the string form of a scalar row value: a number in decimal, a string as it
\* is, nothing for null or a missing value
StringForm(v) ==
    CASE v.t = "number" -> String(v)
      [] v.t = "string" -> v.s
      [] OTHER -> <<>>

RECURSIVE KeepRows(_, _, _)
KeepRows(T, P(_), i) ==
    IF i > Len(T) THEN <<>>
    ELSE (IF P(T[i]) THEN <<T[i]>> ELSE <<>>) \o KeepRows(T, P, i + 1)

\* C5: filter keeps exactly the rows whose value at the column, as a
\* lower-cased string, contains the lower-cased search value (a number, 0
\* included, by its decimal form), in table order, truncated to the first
\* limit rows. Stated for the limits that are not negative.
C5_FilterKeepsMatches ==
    IsQuery("filter") /\ result.kind = "ok" /\ LimitOf(lastCall) >= 0 =>
        LET T == CalledTable
            matches(row) ==
                \E i \in 0..Len(StringForm(Get(row, lastCall.column.s))) :
                  LET hay == ToLowerCase(StringForm(Get(row, lastCall.column.s)))
                      needle == ToLowerCase(lastCall.value.s)
                  IN /\ i + Len(needle) <= Len(hay)
                     /\ SubSeq(hay, i + 1, i + Len(needle)) = needle
            kept == KeepRows(T, matches, 1)
        IN result.rows = SubSeq(kept, 1, Min(LimitOf(lastCall), Len(kept)))

\* a string that is a number from its first to its last character
IsNumeral(s) ==
    LET j == IF Len(s) > 0 /\ s[1] = "-" THEN 2 ELSE 1
    IN /\ j <= Len(s)
       /\ \A i \in j..Len(s) : IsDigit(s[i])

\* the numeric value of a row value; 0 for a non-numeric or missing value
NumericValue(v) ==
    CASE v.t = "number" -> v.n
      [] v.t = "string" /\ IsNumeral(v.s) -> ParseFloat(v.s).n
      [] OTHER -> 0

\* C6: sum over a column never fails and returns the sum of the numeric
\* values at that column, every non-numeric or missing value counting as 0.
C6_SumOfNumericValues ==
    IsQuery("sum") /\ Truthy(lastCall.column) =>
        LET valueAt(row) == NumericValue(Get(row, lastCall.column.s))
        IN /\ result.kind = "ok"
           /\ result.num = Num(SumOver(CalledTable, valueAt, 1))

\* what a row adds to its group's total: its valor_total, its valor only when
\* it has no valor_total, and 0 when it has neither or the value is not a
\* number (a string counts by the number parseFloat reads from it)
HasValue(v) == v.t \notin {"undefined", "null"}

LenientNumber(v) ==
    CASE v.t = "number" -> v.n
      [] v.t = "string" /\ ~IsNaN(ParseFloat(v.s)) -> ParseFloat(v.s).n
      [] OTHER -> 0

Contribution(row) ==
    IF HasValue(Get(row, cValorTotal)) THEN LenientNumber(Get(row, cValorTotal))
    ELSE IF HasValue(Get(row, cValor)) THEN LenientNumber(Get(row, cValor))
    ELSE 0

\* C7: each group's total_value is the sum of the contributions of the rows
\* of the group; a row whose valor_total is the number 0 contributes 0
\* whatever its valor is.
C7_TotalValueOfGroups ==
    IsQuery("group_by") /\ result.kind = "ok" =>
        LET T == CalledTable
            G == result.groups
            keyOf(row) == String(Get(row, lastCall.column.s))
        IN \A g \in 1..Len(G) :
              LET inGroup(row) == IF keyOf(row) = G[g].key THEN Contribution(row) ELSE 0
              IN G[g].total_value = Num(SumOver(T, inGroup, 1))

\* C8: on a table of the store, sum and group_by without a column (none, or
\* the empty name) and filter without a column or without a value end in
\* MissingParameter and return nothing; with the parameters supplied, the
\* empty string as a search value included, MissingParameter is not raised.
C8_MissingParameter ==
    lastCall.tool = "query_loaded_csv" /\ MapHas(loadedData, lastCall.table) =>
        LET noColumn == lastCall.column = Undefined \/ lastCall.column = Str(<<>>)
            noValue == lastCall.value = Undefined
            missing ==
                \/ lastCall.operation \in {"sum", "group_by"} /\ noColumn
                \/ lastCall.operation = "filter" /\ (noColumn \/ noValue)
        IN IF missing
           THEN /\ result.kind = "error"
                /\ result.error = "MissingParameter"
                /\ result.rows = <<>> /\ result.groups = <<>> /\ result.num = Undefined
           ELSE result.error # "MissingParameter"

\* a filter with the empty string as its search value returned rows
C8_Witness ==
    /\ IsQuery("filter")
    /\ lastCall.value = Str(<<>>)
    /\ result.kind = "ok"
    /\ Len(result.rows) > 0

-----------------------------------------------------------------------------
(* Properties of the name lookup of the query handlers *)

\* a step in which a query handler answered: it left the Map and the load alone
QueryAnswered ==
    /\ lastCall'.tool \in {"query_data", "query_loaded_csv"}
    /\ loadedData' = loadedData
    /\ load' = load

NotFound(res, names) ==
    /\ res.kind = "error"
    /\ res.error = "TableNotFound"
    /\ res.names = names

\* no stored name satisfies any stage of the lookup of handleQueryData
Unmatched(m, id) ==
    \A i \in 1..Len(m) :
        LET key == m[i].key
        IN /\ key # id
           /\ ~Includes(key, id)
           /\ ~Includes(id, SplitHead(key, "_"))
           /\ ~Includes(key, BaseName(id))

\* the stored names whose entries are row tables, in the order of the store
RowTableNames(m) ==
    LET keys == MapKeys(m)
        isTable(key) == \E i \in 1..Len(m) : m[i].key = key /\ m[i].val.isArray
    IN SelectSeq(keys, isTable)

AnsweredNow ==
    /\ lastCall.tool = "query_data"
    /\ result = QueryData(loadedData, lastCall.table, lastCall.query)

Reverse(seq) == [i \in 1..Len(seq) |-> seq[Len(seq) + 1 - i]]

\* every entry of the store is the row table of a CSV file: the same files
\* extracted in the opposite order leave the store in the opposite order
CsvOnly(m) ==
    \A i \in 1..Len(m) : m[i].key \in {nAb, nB} /\ m[i].val.isArray

\* C10: the entry the lookup of handleQueryData chooses is the stored key
\* equal to the identifier when there is one, and is fixed by the stored
\* names, not by the order in which they were loaded: the same tables loaded
\* in the opposite order give the same table.
C10_ResolutionFixedByPriority ==
    AnsweredNow /\ result.kind = "ok" =>
        /\ MapHas(loadedData, lastCall.table) /\ MapGet(loadedData, lastCall.table).isArray
              => result.table = lastCall.table
        /\ CsvOnly(loadedData) =>
              result.table = QueryData(Reverse(loadedData), lastCall.table, lastCall.query).table

-----------------------------------------------------------------------------
(* Properties of workbooks in the store *)

\* a step of the loop of handleLoadFromDrive over the file load.files[1]
FileStep ==
    /\ load.active
    /\ Len(load.files) > 0
    /\ load'.parsed = load.parsed + 1

\* a workbook object with more than one sheet
ManySheets(data) == ~data.isArray /\ Len(data.sheets) > 1

Qualified(name, sheet) == name \o <<"_">> \o sheet

QualifiedNames(name, data) ==
    [i \in 1..Len(data.sheets) |-> Qualified(name, data.sheets[i].key)]

\* C11: after the load of a workbook with two sheets the store holds the
\* workbook's name with each sheet's name appended, mapped to the sheet's
\* rows, and the workbook's name mapped to the workbook object; a query for
\* the workbook's name ends in AmbiguousTable listing the two qualified
\* names, both stored keys, and a query for a qualified name is answered
\* from that sheet's rows.
C11_WorkbookWithTwoSheets ==
    [][/\ FileStep /\ load.files[1].ok /\ ManySheets(load.files[1].data) =>
             LET file == load.files[1]
             IN /\ \A i \in 1..Len(file.data.sheets) :
                      LET name == Qualified(file.name, file.data.sheets[i].key)
                      IN /\ MapHas(loadedData', name)
                         /\ MapGet(loadedData', name) = RowTable(file.data.sheets[i].rows)
                /\ MapHas(loadedData', file.name)
                /\ MapGet(loadedData', file.name) = file.data
       /\ QueryAnswered /\ lastCall'.tool = "query_data" =>
             \A i \in 1..Len(loadedData) :
                LET name == loadedData[i].key
                    data == loadedData[i].val
                IN ManySheets(data) =>
                     /\ lastCall'.table = name =>
                           /\ result'.kind = "error"
                           /\ result'.error = "AmbiguousTable"
                           /\ result'.names = QualifiedNames(name, data)
                           /\ \A n \in 1..Len(result'.names) : MapHas(loadedData, result'.names[n])
                     /\ \A j \in 1..Len(data.sheets) :
                           lastCall'.table = Qualified(name, data.sheets[j].key) =>
                              /\ result'.kind = "ok"
                              /\ result'.table = lastCall'.table
                              /\ result' = [ProcessQuery(data.sheets[j].rows, lastCall'.query)
                                               EXCEPT !.table = lastCall'.table]]_vars

\* a query for the name of a stored workbook with two sheets was answered
\* with AmbiguousTable
C11_Witness ==
    /\ AnsweredNow
    /\ MapHas(loadedData, lastCall.table)
    /\ ManySheets(MapGet(loadedData, lastCall.table))
    /\ result.error = "AmbiguousTable"
    /\ Len(result.names) = 2

\* the last answer is that of handleWriteCSVToDrive on the store as it is now
ExportedNow ==
    /\ lastCall.tool = "write_csv_to_drive"
    /\ result = WriteCSVToDrive(loadedData, lastCall.data, lastCall.table,
                                lastCall.upload = "done")

\* the entry the lookup finds for the identifier is a workbook object with
\* more than one sheet
FindsManySheets(m, id) ==
    /\ ResolveTable(m, id).found
    /\ ManySheets(MapGet(m, ResolveTable(m, id).key))

\* C12: a query or an export by table name whose identifier is resolved to
\* a workbook object with more than one sheet ends in an error that lists
\* the qualified names of the sheets; no sheet is picked for it.
C12_ManySheetsNeverPicked ==
    (AnsweredNow \/ ExportedNow) /\ FindsManySheets(loadedData, lastCall.table) =>
        /\ result.kind = "error"
        /\ result.error = "AmbiguousTable"
        /\ result.names = QualifiedNames(ResolveTable(loadedData, lastCall.table).key,
                                         MapGet(loadedData, ResolveTable(loadedData, lastCall.table).key))

KeySet(m) == {m[i].key : i \in 1..Len(m)}

\* C13: the load of a workbook B with more than one sheet maps B and each
\* sheet's name appended to B's name to the sheet's rows, maps B to the
\* workbook object, and registers no other name.
C13_WorkbookRegistersNoOtherName ==
    [][FileStep /\ load.files[1].ok /\ ManySheets(load.files[1].data) =>
          LET file == load.files[1]
              names == {Qualified(file.name, file.data.sheets[i].key) :
                           i \in 1..Len(file.data.sheets)}
          IN /\ \A i \in 1..Len(file.data.sheets) :
                   MapGet(loadedData', Qualified(file.name, file.data.sheets[i].key))
                       = RowTable(file.data.sheets[i].rows)
             /\ MapGet(loadedData', file.name) = file.data
             /\ KeySet(loadedData') \subseteq KeySet(loadedData) \cup names \cup {file.name}]_vars

-----------------------------------------------------------------------------
(* Properties of the names of the store *)

\* C14: the load of a CSV file registers it under exactly one name, the
\* file's name as it is in the archive, extension and letter case kept; a
\* query finds a table under that very name only, so a table loaded from
\* T.csv is not found under t.csv.
C14_CsvKeepsFileName ==
    [][/\ FileStep /\ load.files[1].ok =>
             /\ KeySet(loadedData') = KeySet(loadedData) \cup {load.files[1].name}
             /\ MapGet(loadedData', load.files[1].name) = load.files[1].data
       /\ QueryAnswered /\ lastCall'.tool = "query_loaded_csv" =>
             (result'.error = "TableNotFound" <=> lastCall'.table \notin KeySet(loadedData))]_vars

\* the table of T.csv is stored and a query for t.csv ended in TableNotFound
C14_Witness ==
    /\ lastCall.tool = "query_loaded_csv"
    /\ lastCall.table = tName
    /\ result.error = "TableNotFound"
    /\ result.names = MapKeys(loadedData)
    /\ MapHas(loadedData, TName)

\* C14 as stated: the load of a CSV file registers it under exactly one
\* name, the file's name in lower case, and the table is found under it.
C14_CsvUnderLowerCaseName ==
    [][FileStep /\ load.files[1].ok =>
          /\ KeySet(loadedData') = KeySet(loadedData) \cup {ToLowerCase(load.files[1].name)}
          /\ MapHas(loadedData', ToLowerCase(load.files[1].name))
          /\ MapGet(loadedData', ToLowerCase(load.files[1].name)) = load.files[1].data]_vars

\* the names handleLoadFromDrive and handleLoadCSVFromDrive derive from a
\* parsed file: its name and, for a workbook object, the qualified names of
\* its sheets and its name without .xlsx/.xls
DerivedNames(file) ==
    IF file.data.isArray THEN {file.name}
    ELSE {file.name, BaseName(file.name)}
            \cup {Qualified(file.name, file.data.sheets[i].key) : i \in 1..Len(file.data.sheets)}

\* C15: the load of one source puts the source's value under the source's
\* name in place of what was there, and leaves every entry under a name that
\* is not derived from the source as it was; no other name appears.
C15_LoadChangesDerivedNamesOnly ==
    [][FileStep =>
          LET file == load.files[1]
              derived == IF file.ok THEN DerivedNames(file) ELSE {}
          IN /\ \A i \in 1..Len(loadedData) :
                   loadedData[i].key \notin derived =>
                      /\ MapHas(loadedData', loadedData[i].key)
                      /\ MapGet(loadedData', loadedData[i].key) = loadedData[i].val
             /\ KeySet(loadedData') \subseteq KeySet(loadedData) \cup derived
             /\ file.ok => /\ MapHas(loadedData', file.name)
                           /\ MapGet(loadedData', file.name) = file.data]_vars

\* the workbook object under d.xlsx was replaced by a row table while the
\* entry of its sheet S stayed
C15_Witness ==
    /\ MapHas(loadedData, nD)
    /\ MapGet(loadedData, nD).isArray
    /\ MapHas(loadedData, Qualified(nD, <<"S">>))

\* C16: no step of a load, a query, an analysis, an export or a listing
\* removes a name from the store, and the value under a stored name changes
\* only in the step of a load for a file from which that name is derived.
C16_NamesNeverShrink ==
    [][\A i \in 1..Len(loadedData) :
          LET key == loadedData[i].key
          IN /\ MapHas(loadedData', key)
             /\ MapGet(loadedData', key) # loadedData[i].val =>
                   /\ FileStep
                   /\ load.files[1].ok
                   /\ key \in DerivedNames(load.files[1])]_vars

\* an export was answered from a store that two loads have filled
C16_Witness ==
    /\ ExportedNow
    /\ result.kind = "ok"
    /\ load.parsed = MaxFiles
    /\ ~load.active
    /\ Len(loadedData) > 1

-----------------------------------------------------------------------------
(* Properties of what a query is evaluated on *)

\* C17: in every state of the store and for every identifier, handleQueryData
\* either ends in an error before the query processing or hands the query
\* processing a sequence of rows, never a workbook object; the answer to a
\* query is the query processing of that sequence of rows.
C17_QueriesOnRowTablesOnly ==
    /\ \A id \in TableIds :
          /\ QueryTarget(loadedData, id).error = "" => QueryTarget(loadedData, id).data.isArray
          /\ ExactTarget(loadedData, id).error = "" => ExactTarget(loadedData, id).data.isArray
    /\ AnsweredNow /\ result.kind = "ok" =>
          /\ QueryTarget(loadedData, lastCall.table).data.isArray
          /\ result = [ProcessQuery(QueryTarget(loadedData, lastCall.table).data.rows,
                                    lastCall.query)
                          EXCEPT !.table = QueryTarget(loadedData, lastCall.table).name]

\* a query for the name of a workbook with one sheet was answered from the
\* rows of that sheet
C17_Witness ==
    /\ AnsweredNow
    /\ result.kind = "ok"
    /\ MapHas(loadedData, lastCall.table)
    /\ ~MapGet(loadedData, lastCall.table).isArray
    /\ result.num = Num(Len(MapGet(loadedData, lastCall.table).sheets[1].rows))

-----------------------------------------------------------------------------
(* Properties of findColumn *)

\* the key matches the candidate name by rule 1 (the same string), 2 (the
\* same ignoring case) or 3 (contains it ignoring case)
Matches(key, name, rule) ==
    CASE rule = 1 -> key = name
      [] rule = 2 -> ToLowerCase(key) = ToLowerCase(name)
      [] rule = 3 -> Includes(ToLowerCase(key), ToLowerCase(name))

\* key k is what candidate n finds by the rule: no earlier candidate matches
\* a key by any rule, candidate n matches no key by an earlier rule, and k is
\* the first key it matches by this rule
FoundBy(keys, names, k, n, rule) ==
    /\ \A m \in 1..(n - 1), r \in 1..3, i \in 1..Len(keys) : ~Matches(keys[i], names[m], r)
    /\ \A r \in 1..(rule - 1), i \in 1..Len(keys) : ~Matches(keys[i], names[n], r)
    /\ Matches(keys[k], names[n], rule)
    /\ \A i \in 1..(k - 1) : ~Matches(keys[i], names[n], rule)

UfCandidates ==
    << <<"u", "f", "_", "e", "m", "i", "t", "e", "n", "t", "e">>, <<"u", "f">>,
       <<"e", "s", "t", "a", "d", "o">> >>

\* C18: findColumn takes the candidates in the caller's order and, for each,
\* the key equal to it, else the first key equal to it ignoring case, else
\* the first key containing it ignoring case; what it returns is a key of
\* the row as the row spells it; it returns null only when no candidate
\* matches a key by any rule.
C18_FindColumn ==
    lastCall.tool = "findColumn" =>
        LET data == MapGet(loadedData, tName).rows
            keys == IF Len(data) = 0 THEN <<>> ELSE ObjectKeys(data[1])
            names == lastCall.possibleNames
            found == result.top[1]
        IN /\ found = Null <=>
                 \A n \in 1..Len(names), r \in 1..3, i \in 1..Len(keys) :
                    ~Matches(keys[i], names[n], r)
           /\ found # Null =>
                 \E k \in 1..Len(keys), n \in 1..Len(names), rule \in 1..3 :
                    /\ found = Str(keys[k])
                    /\ FoundBy(keys, names, k, n, rule)

\* the candidates uf_emitente, uf, estado found the key UF_Emitente
C18_Witness ==
    /\ lastCall.tool = "findColumn"
    /\ lastCall.possibleNames = UfCandidates
    /\ result.top = <<Str(<<"U", "F", "_", "E", "m", "i", "t", "e", "n", "t", "e">>)>>

-----------------------------------------------------------------------------
(* Properties of handleAnalyzeNFData *)

IsAnalysis(analysis) ==
    /\ lastCall.tool = "analyze_nf_data"
    /\ lastCall.analysis = analysis

\* C19: uf_values returns a ranking with one entry per distinct region code
\* of the header table, each entry's total being the sum of the numeric
\* monetary values of the rows with that code, a non-numeric or missing value
\* adding nothing, in non-increasing order of total; the top entry is the
\* first entry of the ranking.
C19_UfValuesRanking ==
    IsAnalysis("uf_values") /\ result.kind = "ok" =>
        LET H == MapGet(loadedData, CabecalhoName).rows
            R == result.ranking
            ufColumn == result.cols[1]
            valorColumn == result.cols[2]
            coded == {i \in 1..Len(H) : HasValue(Get(H[i], ufColumn))}
            codeOf(i) == String(Get(H[i], ufColumn))
        IN /\ \A i \in coded : Cardinality({e \in 1..Len(R) : R[e].key = codeOf(i)}) = 1
           /\ \A e \in 1..Len(R) :
                 LET ofCode(row) == IF HasValue(Get(row, ufColumn))
                                       /\ String(Get(row, ufColumn)) = R[e].key
                                    THEN NumericValue(Get(row, valorColumn)) ELSE 0
                 IN /\ \E i \in coded : codeOf(i) = R[e].key
                    /\ R[e].n = Num(SumOver(H, ofCode, 1))
           /\ \A e \in 1..(Len(R) - 1) : R[e].n.n >= R[e + 1].n.n
           /\ result.top = IF Len(R) > 0 THEN <<R[1]>> ELSE <<>>

\* no key of the first row of the table matches a name of the list by any
\* rule: what contains a name ignoring case covers the two stricter rules
Unresolved(T, names) ==
    \A n \in 1..Len(names), i \in 1..Len(T[1]) : ~Matches(T[1][i].k, names[n], 3)

\* the analysis is on the stored table of this name and one of the two
\* candidate lists resolves to no column of it
LacksColumns(analysis, name, first, second) ==
    /\ IsAnalysis(analysis)
    /\ MapHas(loadedData, CabecalhoName)
    /\ MapHas(loadedData, name)
    /\ LET T == MapGet(loadedData, name).rows
       IN Len(T) = 0 \/ Unresolved(T, first) \/ Unresolved(T, second)

\* the call ended in ColumnsNotFound with the keys of the first row of the
\* table, and returned nothing
ListsColumnsOf(name) ==
    LET T == MapGet(loadedData, name).rows
    IN result = Fail("ColumnsNotFound", IF Len(T) = 0 THEN <<>> ELSE ObjectKeys(T[1]))

InternetValues == { <<"s">>, <<"s", "i", "m">>, <<"t", "r", "u", "e">>, <<"1">> }

C22_ItemTableNotLoaded ==
    IsAnalysis("category_values") /\ ~MapHas(loadedData, ItensName) =>
        result = Fail("NotLoaded", <<ItensName>>)

-----------------------------------------------------------------------------
(* Properties of convertToCSV and escapeCSVField *)

\* the records of fields of a CSV text, quotes taken off
Read(text) == Records(text, 1, "start", <<>>, <<>>, <<>>)

\* where the key is first seen in the table: rows in order, keys in order
FirstSeen(T, key) ==
    LET MaxWidth == 10
        seen == {i * MaxWidth + j : i \in 1..Len(T), j \in 1..MaxWidth}
        at == {p \in seen : LET i == p \div MaxWidth
                                j == p % MaxWidth
                            IN j >= 1 /\ j <= Len(T[i]) /\ T[i][j].k = key}
    IN CHOOSE p \in at : \A q \in at : p <= q

Specials == {Comma, Quote, LF, CR}

\* C24: a field is wrapped in double quotes, every double quote inside
\* doubled, if and only if its text contains a comma, a double quote or a
\* newline (line feed or carriage return); every other field is its plain
\* text.
C24_EscapeCSVField ==
    lastCall.tool = "escapeCSVField" =>
        LET text == StringForm(lastCall.value)
            out == result.table
            special == \E i \in 1..Len(text) : text[i] \in Specials
            quotes == Cardinality({i \in 1..Len(text) : text[i] = Quote})
        IN IF special
           THEN /\ Len(out) = Len(text) + quotes + 2
                /\ out[1] = Quote
                /\ out[Len(out)] = Quote
                /\ Read(out) = << <<text>> >>
           ELSE out = text

\* a text with two double quotes comes out wrapped, with four inside
C24_Witness ==
    /\ lastCall.tool = "escapeCSVField"
    /\ lastCall.value = Str(<<"q", Quote, Quote, "r">>)
    /\ result.table = <<Quote, "q", Quote, Quote, Quote, Quote, "r", Quote>>

\* the texts of the values of the rows that are not null
ValueTexts(rows) ==
    UNION { {StringForm(rows[i][j].v) :
                j \in {k \in 1..Len(rows[i]) : HasValue(rows[i][k].v)}} :
            i \in 1..Len(rows) }

\* C25: serializing a table to CSV and decoding the text again gives a
\* table with the same number of rows and the same non-null values (here
\* compared as texts, a number and its numeral counting as the same value).
C25_RoundTrip ==
    lastCall.tool = "parseCSV" =>
        LET T == MapGet(loadedData, tName).rows
        IN /\ result.kind = "ok"
           /\ Len(result.rows) = Len(T)
           /\ ValueTexts(result.rows) = ValueTexts(T)

-----------------------------------------------------------------------------
(* Properties of handleWriteCSVToDrive *)

\* a step in which an export is answered
WriteAnswered ==
    /\ lastCall'.tool = "write_csv_to_drive"
    /\ lastCall # lastCall'
    /\ load' = load

\* every table the entry holds is without rows
NoRows(data) ==
    IF data.isArray THEN Len(data.rows) = 0
    ELSE \A i \in 1..Len(data.sheets) : Len(data.sheets[i].rows) = 0

\* the export ended in the error and wrote no record to Drive
EndsIn(res, error) ==
    /\ res.kind = "error"
    /\ res.error = error
    /\ res.rows = <<>>

\* C26: an export by a table name that no stage of the lookup matches ends
\* in TableNotFound; an export whose stored or supplied rows are empty ends
\* in NoData; either uploads nothing; no export changes the store; when a
\* table name and a data array are both given, the table name decides the
\* source.
C26_ExportErrors ==
    [][WriteAnswered =>
          LET tableName == lastCall'.table
              data == lastCall'.data
              uploaded == lastCall'.upload = "done"
          IN /\ loadedData' = loadedData
             /\ Len(tableName) > 0 /\ Unmatched(loadedData, tableName)
                    => EndsIn(result', "TableNotFound")
             /\ Len(tableName) > 0 /\ MapHas(loadedData, tableName)
                                   /\ NoRows(MapGet(loadedData, tableName))
                    => EndsIn(result', "NoData")
             /\ Len(tableName) = 0 /\ data.given /\ Len(data.rows) = 0
                    => EndsIn(result', "NoData")
             /\ Len(tableName) > 0
                    => result' = WriteCSVToDrive(loadedData, NoData, tableName, uploaded)
             /\ result'.kind = "ok" => uploaded]_vars

\* rows were supplied with the name of a stored table without rows: the
\* export ended in NoData
C26_Witness ==
    /\ lastCall.tool = "write_csv_to_drive"
    /\ lastCall.table = nE
    /\ lastCall.data = Given(tA)
    /\ lastCall.upload = "done"
    /\ MapHas(loadedData, nE)
    /\ EndsIn(result, "NoData")

\* C26 as stated: an export by a name that is not a key of the store ends in
\* TableNotFound and uploads nothing.
C26_UnloadedNameNotFound ==
    [][WriteAnswered /\ Len(lastCall'.table) > 0 /\ ~MapHas(loadedData, lastCall'.table)
          => EndsIn(result', "TableNotFound")]_vars

-----------------------------------------------------------------------------
(* Properties of the summary of a load *)

\* the source was decoded and a table of it was stored
Registered(source) ==
    /\ source.ok
    /\ source.records > 0
    /\ IsWorkbook(source.name) => source.sheets > 0

RECURSIVE RecordsOf(_, _)
RecordsOf(sources, i) ==
    IF i > Len(sources) THEN 0
    ELSE (IF Registered(sources[i]) THEN sources[i].records ELSE 0) + RecordsOf(sources, i + 1)

\* C27: the summary of a load of an archive of k sources reports k files
\* processed, as succeeded the number of sources decoded and registered, as
\* failed the number of the others, and as total rows the rows of the tables
\* this load registered; so succeeded <= k, failed >= 0 and succeeded +
\* failed = k, also with a workbook of several sheets.
C27_LoadSummary ==
    lastCall.tool = "load_csv_from_drive" /\ result.kind = "ok" /\ Len(result.top) = 4 =>
        LET sources == result.groups
            k == Len(sources)
            succeeded == Cardinality({i \in 1..k : Registered(sources[i])})
        IN /\ result.top[1] = Num(k)
           /\ result.top[2] = Num(succeeded)
           /\ result.top[3] = Num(k - succeeded)
           /\ result.top[4] = Num(RecordsOf(sources, 1))
           /\ result.top[2].n <= k
           /\ result.top[3].n >= 0
           /\ result.top[2].n + result.top[3].n = k

-----------------------------------------------------------------------------
(* Properties of loads and queries handled by the same server *)

\* a load is under way that has registered one of the sources of its
\* archive and has another one still to register
PartlyLoaded ==
    /\ load.active
    /\ \E i \in 1..Len(load.results) : load.results[i].ok
    /\ \E j \in 1..Len(load.files) : load.files[j].ok

\* C28: a query handled by the server while it loads an archive of several
\* sources sees none or all of the tables of this load, never the store with
\* only some of the sources registered.
C28_QuerySeesWholeLoads ==
    [][QueryAnswered => ~PartlyLoaded]_vars

-----------------------------------------------------------------------------
(* SpecSdk: the server on the MCP SDK, second class of src/unnamed/part_001:
   load_csv_from_drive and get_data.  The loop of its load handler has no
   try/catch of its own: the first file that fails to parse ends the call *)

\* no load in progress; before is the store as the load under way found it
SdkIdle == [active |-> FALSE, files |-> <<>>, total |-> 0, loadedCount |-> 0,
            results |-> <<>>, totalRows |-> 0, parsed |-> 0, before |-> <<>>]

\* handleLoadCSVFromDrive up to the loop: downloadFile or extractZip throws
SdkLoadFails ==
    /\ ~load.active
    /\ result' = Fail("DownloadFailed", <<>>)
    /\ lastCall' = LoadCSVCall
    /\ UNCHANGED <<loadedData, load>>

\* handleLoadCSVFromDrive up to the loop, the archive extracted into
\* csvFiles; an archive without files is not refused
BeginSdkLoad(csvFiles) ==
    /\ ~load.active
    /\ load' = [SdkIdle EXCEPT !.active = TRUE, !.files = csvFiles, !.total = Len(csvFiles),
                               !.parsed = load.parsed, !.before = loadedData]
    /\ UNCHANGED <<loadedData, lastCall, result>>

\* one turn of the loop: await parseCSV, then this.loadedData.set(filename,
\* data); an error of parseCSV leaves the loop and is thrown to the caller
\* by the catch of the handler
SdkLoadFile ==
    /\ load.active
    /\ Len(load.files) > 0
    /\ LET file == load.files[1]
       IN IF file.ok
          THEN /\ loadedData' = MapSet(loadedData, file.name, file.data)
               /\ load' = [load EXCEPT !.files = Tail(@),
                                       !.parsed = @ + 1,
                                       !.totalRows = @ + Len(file.data.rows),
                                       !.results = Append(@, FileResult(file))]
               /\ UNCHANGED <<lastCall, result>>
          ELSE /\ result' = Fail("ParseFailed", <<file.name>>)
               /\ lastCall' = LoadCSVCall
               /\ load' = [SdkIdle EXCEPT !.parsed = load.parsed + 1]
               /\ UNCHANGED loadedData

\* after the loop: "Successfully loaded n CSV files from Google Drive"
EndSdkLoad ==
    /\ load.active
    /\ Len(load.files) = 0
    /\ result' = [NoResult EXCEPT !.kind = "ok", !.count = Num(load.total),
                                  !.groups = load.results]
    /\ lastCall' = LoadCSVCall
    /\ load' = [SdkIdle EXCEPT !.parsed = load.parsed]
    /\ UNCHANGED loadedData

\* handleGetData: the table stored under filename, or its first sampleSize rows
handleGetData(filename, sampleSize) ==
    /\ lastCall' = [NoCall EXCEPT !.tool = "get_data", !.table = filename, !.limit = sampleSize]
    /\ result' = IF ~MapHas(loadedData, filename)
                 THEN Fail("TableNotFound", <<filename>>)
                 ELSE LET data == MapGet(loadedData, filename).rows
                      IN OkRows(IF Truthy(sampleSize) THEN ArraySlice(data, 0, sampleSize.n).ret
                                ELSE data)
    /\ UNCHANGED <<loadedData, load>>

\* the files of an archive with what parseCSV makes of them; the parser of
\* this revision accepts a file without data rows, and fails on a file it
\* cannot read
SdkFiles ==
    { Parsed(tName, RowTable(csvA)),
      Parsed(tName, RowTable(csvB)),
      Parsed(TName, RowTable(<<>>)),
      Unparsed(tName),
      Unparsed(xName) }

SdkArchives == UNION { [1..n -> SdkFiles] : n \in 0..MaxFiles }

InitSdk ==
    /\ loadedData = <<>>
    /\ lastCall = NoCall
    /\ result = NoResult
    /\ load = SdkIdle

\* the server parses at most MaxFiles files in all
BeginSdkLoadStep ==
    \E csvFiles \in SdkArchives :
        /\ load.parsed + Len(csvFiles) <= MaxFiles
        /\ BeginSdkLoad(csvFiles)

GetDataStep ==
    \E filename \in {tName, TName, xName}, sampleSize \in {Undefined, Num(0), Num(1)} :
        handleGetData(filename, sampleSize)

NextSdk ==
    \/ SdkLoadFails
    \/ BeginSdkLoadStep
    \/ SdkLoadFile
    \/ EndSdkLoad
    \/ GetDataStep

SpecSdk == InitSdk /\ [][NextSdk]_vars

\* the load call ends in this step by raising an error
LoadRaises ==
    /\ lastCall'.tool = "load_csv_from_drive"
    /\ result'.kind = "error"
    /\ ~load'.active

\* C29: a load that ends by raising an error to the caller leaves the store
\* exactly as it was before the call; a source that fails to decode does not
\* change the entry stored under its name.
C29_FailedLoadKeepsStore ==
    [][LoadRaises =>
          loadedData' = (IF load.active THEN load.before ELSE loadedData)]_vars

-----------------------------------------------------------------------------
(* SpecBundles: the loads of the server of src/unnamed/part_004, with
   workbooks whose file name has its extension in upper case *)

nDX == <<"d", ".", "X", "L", "S", "X">>

\* the files of an archive with what parseFileByType makes of them; the
\* parser is chosen by the extension in lower case
BundleFiles ==
    { Parsed(nD, SheetBundle(<<Sheet(<<"S">>, tA), Sheet(<<"T">>, tB)>>)),
      Parsed(nD, SheetBundle(<<Sheet(<<"S">>, tB)>>)),
      Parsed(nDX, SheetBundle(<<Sheet(<<"S">>, tA), Sheet(<<"T">>, tB)>>)),
      Parsed(nDX, RowTable(tB)),
      Parsed(nB, RowTable(tB)),
      Unparsed(nDX) }

BundleArchives == UNION { [1..n -> BundleFiles] : n \in 1..MaxFiles }

\* the server parses at most MaxFiles files in all
BeginLoadBundlesStep ==
    \E extractedFiles \in BundleArchives :
        /\ load.parsed + Len(extractedFiles) <= MaxFiles
        /\ BeginLoadFromDrive(extractedFiles)

NextBundles ==
    \/ LoadFromDriveFails
    \/ BeginLoadBundlesStep
    \/ LoadFromDriveFile
    \/ EndLoadFromDrive
    \/ handleListLoadedData

SpecBundles == InitDrive /\ [][NextBundles]_vars

\* every workbook object of the store has each of its sheets stored under
\* the workbook's name followed by _ and the sheet's name
SheetsOfBundles(m) ==
    \A b \in 1..Len(m) :
        ~m[b].val.isArray =>
            \A i \in 1..Len(m[b].val.sheets) :
                LET key == Qualified(m[b].key, m[b].val.sheets[i].key)
                IN MapHas(m, key) /\ MapGet(m, key) = RowTable(m[b].val.sheets[i].rows)

\* C30: after the load of a workbook B with sheets S1..Sn the store maps B
\* to the workbook object and each B_Si to the rows of sheet Si, and no later
\* load under another name overwrites them: every workbook object of the
\* store has its sheets stored under its qualified names.
C30_BundleAndSheetsKept ==
    [][FileStep =>
          /\ load.files[1].ok /\ ~load.files[1].data.isArray =>
                /\ MapHas(loadedData', load.files[1].name)
                /\ MapGet(loadedData', load.files[1].name) = load.files[1].data
          /\ SheetsOfBundles(loadedData')]_vars

====
